---- MODULE Spec2Model ----
(***************************************************************************)
(* ZKBallot: commit/reveal voting with Merkle-proof eligibility, time      *)
(* locked phases and weighted tallies (contracts/ZKBallot.sol).            *)
(*                                                                         *)
(* One action per external function of the contract.  A call whose         *)
(* require chain fails reverts: the contract state is left as it was; the  *)
(* revert reason the caller receives is the value of the call's Outcome    *)
(* operator in the state the call is made in.                              *)
(* uint256 arithmetic is checked (pragma ^0.8.20): an addition that        *)
(* leaves the word reverts with Panic(0x11).  The word is scaled down to   *)
(* 0..UintMax.  keccak256 is an injective function on its pre-images;      *)
(* bytes32 values are naturals, 0 being bytes32(0).                        *)
(***************************************************************************)
EXTENDS Naturals, Sequences, FiniteSets

VARIABLES
    now,                  \* block.timestamp
    proposalCount,
    defaultVotingPeriod,
    defaultRevealPeriod,
    minimumQuorum,
    proposals,            \* mapping(uint256 => Proposal)
    commitments,          \* mapping(uint256 => mapping(address => VoteCommitment))
    votingPower,          \* mapping(address => uint256)
    roles,                \* AccessControl role membership
    history,              \* per (proposal, voter): what the successful calls supplied
    powerAssigned,        \* the addresses whose votingPower slot was ever written
    returned              \* the last view call and the value it returned

state == <<proposalCount, defaultVotingPeriod, defaultRevealPeriod, minimumQuorum,
           proposals, commitments, votingPower, roles>>

vars == <<now, proposalCount, defaultVotingPeriod, defaultRevealPeriod, minimumQuorum,
          proposals, commitments, votingPower, roles, history, powerAssigned,
          returned>>

----------------------------------------------------------------------------
(* Bounds of the model *)

\* ids 0 .. MaxProposals of the proposals mapping are modelled
MaxProposals == 2
\* proposals created under Spec, which follows one ballot in depth
MaxBallots == 1
\* the largest uint256 (the word is scaled down; it holds every timestamp)
UintMax == 1000000

----------------------------------------------------------------------------
(* Identities: the signers of the test suite *)

owner == 1
voter1 == 2
voter2 == 3
voter3 == 4

ZeroAddress == 0
Callers == {owner, voter1, voter2}
Addresses == {owner, voter1, voter2, voter3}

ADMIN_ROLE == "ADMIN_ROLE"
PROPOSER_ROLE == "PROPOSER_ROLE"
DEFAULT_ADMIN_ROLE == "DEFAULT_ADMIN_ROLE"

\* enum VoteOption { Abstain, For, Against }
Abstain == 0
For == 1
Against == 2
VoteOptions == {Abstain, For, Against}

\* 1 hours
OneHour == 3600

----------------------------------------------------------------------------
(* keccak256, injective on pre-images of three shapes: a packed address    *)
(* (20 bytes), a packed (uint8, bytes32) pair (33 bytes), and a sorted     *)
(* pair of bytes32 (64 bytes).  The three ranges are disjoint and none     *)
(* contains 0.                                                             *)

ZeroHash == 0

\* keccak256(abi.encodePacked(msg.sender)): 1 .. 9
keccakAddress(a) == a

\* keccak256(abi.encodePacked(choice, salt)), salt in 0 .. 3: 10 .. 99
keccakChoiceSalt(choice, salt) == 10 + choice * 4 + salt

Min(a, b) == IF a <= b THEN a ELSE b
Max(a, b) == IF a <= b THEN b ELSE a

\* keccak256 of a 64-byte pre-image (Cantor pairing keeps it injective): 100 ..
keccakPair(a, b) == 100 + ((a + b) * (a + b + 1)) \div 2 + b

\* commutativeKeccak256 that hashes the pair in the order given
orderedKeccak256(a, b) == keccakPair(a, b)

\* Hashes.commutativeKeccak256: the sorted-pair rule
commutativeKeccak256(a, b) == keccakPair(Min(a, b), Max(a, b))

RECURSIVE processProof(_, _)
\* MerkleProof.processProof: fold the proof over the leaf
processProof(proof, acc) ==
    IF proof = <<>> THEN acc
    ELSE processProof(Tail(proof), commutativeKeccak256(acc, Head(proof)))

\* MerkleProof.verify(proof, root, leaf)
verify(proof, root, leaf) == processProof(proof, leaf) = root

----------------------------------------------------------------------------
(* The eligibility tree of the tests: leaves voter1, voter2, voter3,       *)
(* merkletreejs with sortPairs (an odd node is carried up unchanged).      *)

leaf1 == keccakAddress(voter1)
leaf2 == keccakAddress(voter2)
leaf3 == keccakAddress(voter3)
node12 == commutativeKeccak256(leaf1, leaf2)
merkleRoot == commutativeKeccak256(node12, leaf3)

\* merkleTree.getHexProof(leaf)
getHexProof(a) ==
    IF a = voter1 THEN <<leaf2, leaf3>>
    ELSE IF a = voter2 THEN <<leaf1, leaf3>>
    ELSE IF a = voter3 THEN <<node12>>
    ELSE <<>>

----------------------------------------------------------------------------
(* Storage *)

ProposalIds == 0 .. MaxProposals
Roles == {DEFAULT_ADMIN_ROLE, ADMIN_ROLE, PROPOSER_ROLE}

\* defaultVotingPeriod = 3 days, defaultRevealPeriod = 1 days, minimumQuorum = 10
ThreeDays == 259200
OneDay == 86400
InitialQuorum == 10

\* a storage slot of mapping(uint256 => Proposal) that was never written
EmptyProposal ==
    [id |-> 0, proposer |-> ZeroAddress, title |-> "", description |-> "",
     ipfsHash |-> "", merkleRoot |-> ZeroHash, startTime |-> 0, endTime |-> 0,
     revealEndTime |-> 0, state |-> "Pending",
     hasVoted |-> [a \in Addresses |-> FALSE],
     voteCommitments |-> [a \in Addresses |-> ZeroHash],
     voteResults |-> [o \in VoteOptions |-> 0],
     totalVotes |-> 0, requiredQuorum |-> 0, executed |-> FALSE]

\* a storage slot of commitments[id][voter] that was never written
EmptyCommitment == [commitment |-> ZeroHash, timestamp |-> 0, revealed |-> FALSE]

\* what the successful calls of one (proposal, voter) pair supplied
EmptyHistory ==
    [commits |-> 0, commitment |-> ZeroHash, proof |-> <<>>, committedAt |-> 0,
     reveals |-> 0, choice |-> 0, salt |-> 0, power |-> 0]

\* no view was called yet
NothingReturned == [query |-> <<>>, value |-> <<>>]

hasRole(role, account) == account \in roles[role]

\* Init with a constructor that grants no PROPOSER_ROLE
InitNoProposerRole ==
    /\ now = 1
    /\ proposalCount = 0
    /\ defaultVotingPeriod = ThreeDays
    /\ defaultRevealPeriod = OneDay
    /\ minimumQuorum = InitialQuorum
    /\ proposals = [i \in ProposalIds |-> EmptyProposal]
    /\ commitments = [i \in ProposalIds |-> [a \in Addresses |-> EmptyCommitment]]
    /\ votingPower = [a \in Addresses |-> 0]
    /\ roles = [r \in Roles |-> IF r = PROPOSER_ROLE THEN {} ELSE {owner}]
    /\ history = [i \in ProposalIds |-> [a \in Addresses |-> EmptyHistory]]
    /\ powerAssigned = {}
    /\ returned = NothingReturned

Init ==
    /\ now = 1
    /\ proposalCount = 0
    /\ defaultVotingPeriod = ThreeDays
    /\ defaultRevealPeriod = OneDay
    /\ minimumQuorum = InitialQuorum
    /\ proposals = [i \in ProposalIds |-> EmptyProposal]
    /\ commitments = [i \in ProposalIds |-> [a \in Addresses |-> EmptyCommitment]]
    /\ votingPower = [a \in Addresses |-> 0]
    /\ roles = [r \in Roles |-> {owner}]
    /\ history = [i \in ProposalIds |-> [a \in Addresses |-> EmptyHistory]]
    /\ powerAssigned = {}
    /\ returned = NothingReturned

----------------------------------------------------------------------------
(* Inputs *)

Titles == {"", "Test Proposal"}
RootInputs == {ZeroHash, merkleRoot}
PeriodInputs == {0, 1, UintMax}
Salts == {1, 2}
ChoiceInputs == 0 .. 3
CommitmentInputs == {ZeroHash} \cup {keccakChoiceSalt(c, 1) : c \in VoteOptions}
ProofInputs ==
    {getHexProof(a) : a \in Callers} \cup {<<leaf3, leaf2>>}
PowerTargets == {voter2}
PowerInputs == {0, 5, UintMax}
BatchInputs == {<<<<voter2, voter2>>, <<0, 5>>>>, <<<<voter2>>, <<5, 5>>>>}
NewPeriodInputs == {OneHour - 1, OneHour}
NewQuorumInputs == {1, 101}

----------------------------------------------------------------------------
(* createProposal *)

votingPeriodOf(votingPeriod) ==
    IF votingPeriod > 0 THEN votingPeriod ELSE defaultVotingPeriod

\* createProposalOutcome behind onlyRole(ADMIN_ROLE)
createProposalOutcomeAdminGate(sender, title, root, votingPeriod) ==
    IF ~hasRole(ADMIN_ROLE, sender) THEN "AccessControlUnauthorizedAccount"
    ELSE IF title = "" THEN "Title required"
    ELSE IF root = ZeroHash THEN "Invalid merkle root"
    ELSE IF now + votingPeriodOf(votingPeriod) > UintMax THEN "Panic(0x11)"
    ELSE IF now + votingPeriodOf(votingPeriod) + defaultRevealPeriod > UintMax
         THEN "Panic(0x11)"
    ELSE "ok"

\* createProposalOutcome without require(merkleRoot != bytes32(0))
createProposalOutcomeNoRootCheck(sender, title, root, votingPeriod) ==
    IF ~hasRole(PROPOSER_ROLE, sender) THEN "AccessControlUnauthorizedAccount"
    ELSE IF title = "" THEN "Title required"
    ELSE IF now + votingPeriodOf(votingPeriod) > UintMax THEN "Panic(0x11)"
    ELSE IF now + votingPeriodOf(votingPeriod) + defaultRevealPeriod > UintMax
         THEN "Panic(0x11)"
    ELSE "ok"

createProposalOutcome(sender, title, root, votingPeriod) ==
    IF ~hasRole(PROPOSER_ROLE, sender) THEN "AccessControlUnauthorizedAccount"
    ELSE IF title = "" THEN "Title required"
    ELSE IF root = ZeroHash THEN "Invalid merkle root"
    ELSE IF now + votingPeriodOf(votingPeriod) > UintMax THEN "Panic(0x11)"
    ELSE IF now + votingPeriodOf(votingPeriod) + defaultRevealPeriod > UintMax
         THEN "Panic(0x11)"
    ELSE "ok"

\* newProposal with the quorum the contract was deployed with
newProposalInitialQuorum(sender, title, root, votingPeriod) ==
    [EmptyProposal EXCEPT
        !.id = proposalCount,
        !.proposer = sender,
        !.title = title,
        !.description = "Description",
        !.ipfsHash = "QmHash",
        !.merkleRoot = root,
        !.startTime = now,
        !.endTime = now + votingPeriodOf(votingPeriod),
        !.revealEndTime = now + votingPeriodOf(votingPeriod) + defaultRevealPeriod,
        !.state = "Active",
        !.requiredQuorum = InitialQuorum]

\* newProposal with the reveal period counted from block.timestamp
newProposalRevealFromStart(sender, title, root, votingPeriod) ==
    [EmptyProposal EXCEPT
        !.id = proposalCount,
        !.proposer = sender,
        !.title = title,
        !.description = "Description",
        !.ipfsHash = "QmHash",
        !.merkleRoot = root,
        !.startTime = now,
        !.endTime = now + votingPeriodOf(votingPeriod),
        !.revealEndTime = now + defaultRevealPeriod,
        !.state = "Active",
        !.requiredQuorum = minimumQuorum]

newProposal(sender, title, root, votingPeriod) ==
    [EmptyProposal EXCEPT
        !.id = proposalCount,
        !.proposer = sender,
        !.title = title,
        !.description = "Description",
        !.ipfsHash = "QmHash",
        !.merkleRoot = root,
        !.startTime = now,
        !.endTime = now + votingPeriodOf(votingPeriod),
        !.revealEndTime = now + votingPeriodOf(votingPeriod) + defaultRevealPeriod,
        !.state = "Active",
        !.requiredQuorum = minimumQuorum]

createProposal(sender, title, root, votingPeriod) ==
    LET out == createProposalOutcome(sender, title, root, votingPeriod) IN
    /\ IF out = "ok"
       THEN /\ proposalCount' = proposalCount + 1
            /\ proposals' = [proposals EXCEPT
                   ![proposalCount] = newProposal(sender, title, root, votingPeriod)]
       ELSE UNCHANGED <<proposalCount, proposals>>
    /\ UNCHANGED <<now, defaultVotingPeriod, defaultRevealPeriod, minimumQuorum,
                   commitments, votingPower, roles, powerAssigned, history,
                   returned>>

----------------------------------------------------------------------------
(* commitVote *)

\* commitVoteOutcome without require(!proposal.hasVoted[msg.sender])
commitVoteOutcomeNoDuplicateCheck(sender, id, commitment, proof) ==
    LET proposal == proposals[id] IN
    IF proposal.state # "Active" THEN "Proposal not active"
    ELSE IF ~(now >= proposal.startTime) THEN "Voting not started"
    ELSE IF ~(now < proposal.endTime) THEN "Voting ended"
    ELSE IF commitment = ZeroHash THEN "Invalid commitment"
    ELSE IF ~verify(proof, proposal.merkleRoot, keccakAddress(sender))
         THEN "Not eligible to vote"
    ELSE "ok"

\* commitVoteOutcome with the leaf not derived from msg.sender
commitVoteOutcomeAnyLeaf(sender, id, commitment, proof) ==
    LET proposal == proposals[id] IN
    IF proposal.state # "Active" THEN "Proposal not active"
    ELSE IF ~(now >= proposal.startTime) THEN "Voting not started"
    ELSE IF ~(now < proposal.endTime) THEN "Voting ended"
    ELSE IF proposal.hasVoted[sender] THEN "Already voted"
    ELSE IF commitment = ZeroHash THEN "Invalid commitment"
    ELSE IF ~(\E a \in Addresses : verify(proof, proposal.merkleRoot, keccakAddress(a)))
         THEN "Not eligible to vote"
    ELSE "ok"

\* commitVoteOutcome with block.timestamp <= proposal.endTime
commitVoteOutcomeClosedEnd(sender, id, commitment, proof) ==
    LET proposal == proposals[id] IN
    IF proposal.state # "Active" THEN "Proposal not active"
    ELSE IF ~(now >= proposal.startTime) THEN "Voting not started"
    ELSE IF ~(now <= proposal.endTime) THEN "Voting ended"
    ELSE IF proposal.hasVoted[sender] THEN "Already voted"
    ELSE IF commitment = ZeroHash THEN "Invalid commitment"
    ELSE IF ~verify(proof, proposal.merkleRoot, keccakAddress(sender))
         THEN "Not eligible to vote"
    ELSE "ok"

\* commitVoteOutcome with the eligibility check ahead of the commitment check
commitVoteOutcomeProofFirst(sender, id, commitment, proof) ==
    LET proposal == proposals[id] IN
    IF proposal.state # "Active" THEN "Proposal not active"
    ELSE IF ~(now >= proposal.startTime) THEN "Voting not started"
    ELSE IF ~(now < proposal.endTime) THEN "Voting ended"
    ELSE IF proposal.hasVoted[sender] THEN "Already voted"
    ELSE IF ~verify(proof, proposal.merkleRoot, keccakAddress(sender))
         THEN "Not eligible to vote"
    ELSE IF commitment = ZeroHash THEN "Invalid commitment"
    ELSE "ok"


\* commitVoteOutcome without require(proposal.state == ProposalState.Active)
commitVoteOutcomeNoStateCheck(sender, id, commitment, proof) ==
    LET proposal == proposals[id] IN
    IF ~(now >= proposal.startTime) THEN "Voting not started"
    ELSE IF ~(now < proposal.endTime) THEN "Voting ended"
    ELSE IF proposal.hasVoted[sender] THEN "Already voted"
    ELSE IF commitment = ZeroHash THEN "Invalid commitment"
    ELSE IF ~verify(proof, proposal.merkleRoot, keccakAddress(sender))
         THEN "Not eligible to vote"
    ELSE "ok"

commitVoteOutcome(sender, id, commitment, proof) ==
    LET proposal == proposals[id] IN
    IF proposal.state # "Active" THEN "Proposal not active"
    ELSE IF ~(now >= proposal.startTime) THEN "Voting not started"
    ELSE IF ~(now < proposal.endTime) THEN "Voting ended"
    ELSE IF proposal.hasVoted[sender] THEN "Already voted"
    ELSE IF commitment = ZeroHash THEN "Invalid commitment"
    ELSE IF ~verify(proof, proposal.merkleRoot, keccakAddress(sender))
         THEN "Not eligible to vote"
    ELSE "ok"

\* commitVoteEffect that already counts the vote when it is committed
commitVoteEffectCounts(sender, id, commitment, proof) ==
    /\ proposals' = [proposals EXCEPT
           ![id].hasVoted[sender] = TRUE,
           ![id].voteCommitments[sender] = commitment,
           ![id].totalVotes = @ + 1]
    /\ commitments' = [commitments EXCEPT
           ![id][sender] = [commitment |-> commitment, timestamp |-> now,
                            revealed |-> FALSE]]
    /\ history' = [history EXCEPT
           ![id][sender].commits = @ + 1,
           ![id][sender].commitment = commitment,
           ![id][sender].proof = proof,
           ![id][sender].committedAt = now]

commitVoteEffect(sender, id, commitment, proof) ==
    /\ proposals' = [proposals EXCEPT
           ![id].hasVoted[sender] = TRUE,
           ![id].voteCommitments[sender] = commitment]
    /\ commitments' = [commitments EXCEPT
           ![id][sender] = [commitment |-> commitment, timestamp |-> now,
                            revealed |-> FALSE]]
    /\ history' = [history EXCEPT
           ![id][sender].commits = @ + 1,
           ![id][sender].commitment = commitment,
           ![id][sender].proof = proof,
           ![id][sender].committedAt = now]

\* commitVote that marks the caller before its checks and returns, instead
\* of reverting, when the proof does not verify: the mark stays
commitVoteNoRevert(sender, id, commitment, proof) ==
    LET out == commitVoteOutcome(sender, id, commitment, proof) IN
    /\ IF out = "ok"
       THEN commitVoteEffect(sender, id, commitment, proof)
       ELSE IF out = "Not eligible to vote"
       THEN /\ proposals' = [proposals EXCEPT ![id].hasVoted[sender] = TRUE]
            /\ UNCHANGED <<commitments, history>>
       ELSE UNCHANGED <<proposals, commitments, history>>
    /\ UNCHANGED <<now, proposalCount, defaultVotingPeriod, defaultRevealPeriod,
                   minimumQuorum, votingPower, roles, powerAssigned, returned>>

commitVote(sender, id, commitment, proof) ==
    LET out == commitVoteOutcome(sender, id, commitment, proof) IN
    /\ IF out = "ok"
       THEN commitVoteEffect(sender, id, commitment, proof)
       ELSE UNCHANGED <<proposals, commitments, history>>
    /\ UNCHANGED <<now, proposalCount, defaultVotingPeriod, defaultRevealPeriod,
                   minimumQuorum, votingPower, roles, powerAssigned, returned>>

----------------------------------------------------------------------------
(* revealVote *)

\* powerOf that reads the mapping as it is
powerOfStored(sender) == votingPower[sender]

\* votingPower[msg.sender] > 0 ? votingPower[msg.sender] : 1

\* powerOf that never reads votingPower: every vote counts 1
powerOfIgnoringWeight(sender) == 1


\* powerOf with the fallback to 1 for the never assigned only
powerOfAssignedOrOne(sender) ==
    IF sender \in powerAssigned THEN votingPower[sender] ELSE 1

powerOf(sender) == IF votingPower[sender] > 0 THEN votingPower[sender] ELSE 1

\* revealVoteOutcome without require(!voteCommit.revealed)
revealVoteOutcomeNoRevealedCheck(sender, id, choice, salt) ==
    LET proposal == proposals[id]
        voteCommit == commitments[id][sender]
    IN
    IF proposal.state # "Active" THEN "Proposal not active"
    ELSE IF ~(now >= proposal.endTime) THEN "Voting period not ended"
    ELSE IF ~(now < proposal.revealEndTime) THEN "Reveal period ended"
    ELSE IF voteCommit.commitment = ZeroHash THEN "No commitment found"
    ELSE IF ~(choice <= Against) THEN "Invalid choice"
    ELSE IF keccakChoiceSalt(choice, salt) # voteCommit.commitment THEN "Invalid reveal"
    ELSE IF proposal.voteResults[choice] + powerOf(sender) > UintMax THEN "Panic(0x11)"
    ELSE IF proposal.totalVotes + powerOf(sender) > UintMax THEN "Panic(0x11)"
    ELSE "ok"

\* revealVoteOutcome without require(computedCommitment == voteCommit.commitment)
revealVoteOutcomeNoHashCheck(sender, id, choice, salt) ==
    LET proposal == proposals[id]
        voteCommit == commitments[id][sender]
    IN
    IF proposal.state # "Active" THEN "Proposal not active"
    ELSE IF ~(now >= proposal.endTime) THEN "Voting period not ended"
    ELSE IF ~(now < proposal.revealEndTime) THEN "Reveal period ended"
    ELSE IF voteCommit.commitment = ZeroHash THEN "No commitment found"
    ELSE IF voteCommit.revealed THEN "Already revealed"
    ELSE IF ~(choice <= Against) THEN "Invalid choice"
    ELSE IF proposal.voteResults[choice] + powerOf(sender) > UintMax THEN "Panic(0x11)"
    ELSE IF proposal.totalVotes + powerOf(sender) > UintMax THEN "Panic(0x11)"
    ELSE "ok"

\* revealVoteOutcome with block.timestamp <= proposal.revealEndTime
revealVoteOutcomeClosedEnd(sender, id, choice, salt) ==
    LET proposal == proposals[id]
        voteCommit == commitments[id][sender]
    IN
    IF proposal.state # "Active" THEN "Proposal not active"
    ELSE IF ~(now >= proposal.endTime) THEN "Voting period not ended"
    ELSE IF ~(now <= proposal.revealEndTime) THEN "Reveal period ended"
    ELSE IF voteCommit.commitment = ZeroHash THEN "No commitment found"
    ELSE IF voteCommit.revealed THEN "Already revealed"
    ELSE IF ~(choice <= Against) THEN "Invalid choice"
    ELSE IF keccakChoiceSalt(choice, salt) # voteCommit.commitment THEN "Invalid reveal"
    ELSE IF proposal.voteResults[choice] + powerOf(sender) > UintMax THEN "Panic(0x11)"
    ELSE IF proposal.totalVotes + powerOf(sender) > UintMax THEN "Panic(0x11)"
    ELSE "ok"

\* revealVoteOutcome without require(block.timestamp >= proposal.endTime)
revealVoteOutcomeAnyTime(sender, id, choice, salt) ==
    LET proposal == proposals[id]
        voteCommit == commitments[id][sender]
    IN
    IF proposal.state # "Active" THEN "Proposal not active"
    ELSE IF ~(now < proposal.revealEndTime) THEN "Reveal period ended"
    ELSE IF voteCommit.commitment = ZeroHash THEN "No commitment found"
    ELSE IF voteCommit.revealed THEN "Already revealed"
    ELSE IF ~(choice <= Against) THEN "Invalid choice"
    ELSE IF keccakChoiceSalt(choice, salt) # voteCommit.commitment THEN "Invalid reveal"
    ELSE IF proposal.voteResults[choice] + powerOf(sender) > UintMax THEN "Panic(0x11)"
    ELSE IF proposal.totalVotes + powerOf(sender) > UintMax THEN "Panic(0x11)"
    ELSE "ok"


\* revealVoteOutcome without require(proposal.state == ProposalState.Active)
revealVoteOutcomeAnyState(sender, id, choice, salt) ==
    LET proposal == proposals[id]
        voteCommit == commitments[id][sender]
    IN
    IF ~(now >= proposal.endTime) THEN "Voting period not ended"
    ELSE IF ~(now < proposal.revealEndTime) THEN "Reveal period ended"
    ELSE IF voteCommit.commitment = ZeroHash THEN "No commitment found"
    ELSE IF voteCommit.revealed THEN "Already revealed"
    ELSE IF ~(choice <= Against) THEN "Invalid choice"
    ELSE IF keccakChoiceSalt(choice, salt) # voteCommit.commitment THEN "Invalid reveal"
    ELSE IF proposal.voteResults[choice] + powerOf(sender) > UintMax THEN "Panic(0x11)"
    ELSE IF proposal.totalVotes + powerOf(sender) > UintMax THEN "Panic(0x11)"
    ELSE "ok"

revealVoteOutcome(sender, id, choice, salt) ==
    LET proposal == proposals[id]
        voteCommit == commitments[id][sender]
    IN
    IF proposal.state # "Active" THEN "Proposal not active"
    ELSE IF ~(now >= proposal.endTime) THEN "Voting period not ended"
    ELSE IF ~(now < proposal.revealEndTime) THEN "Reveal period ended"
    ELSE IF voteCommit.commitment = ZeroHash THEN "No commitment found"
    ELSE IF voteCommit.revealed THEN "Already revealed"
    ELSE IF ~(choice <= Against) THEN "Invalid choice"
    ELSE IF keccakChoiceSalt(choice, salt) # voteCommit.commitment THEN "Invalid reveal"
    ELSE IF proposal.voteResults[choice] + powerOf(sender) > UintMax THEN "Panic(0x11)"
    ELSE IF proposal.totalVotes + powerOf(sender) > UintMax THEN "Panic(0x11)"
    ELSE "ok"

\* revealVoteEffect that deletes the commitment once it is revealed
revealVoteEffectClearsCommitment(sender, id, choice, salt) ==
    /\ commitments' = [commitments EXCEPT ![id][sender].revealed = TRUE,
                                          ![id][sender].commitment = ZeroHash]
    /\ proposals' = [proposals EXCEPT
           ![id].voteResults[choice] = @ + powerOf(sender),
           ![id].totalVotes = @ + powerOf(sender)]
    /\ history' = [history EXCEPT
           ![id][sender].reveals = @ + 1,
           ![id][sender].choice = choice,
           ![id][sender].salt = salt,
           ![id][sender].power = powerOf(sender)]

\* revealVoteEffect without proposal.totalVotes += power
revealVoteEffectNoTotal(sender, id, choice, salt) ==
    /\ commitments' = [commitments EXCEPT ![id][sender].revealed = TRUE]
    /\ proposals' = [proposals EXCEPT
           ![id].voteResults[choice] = @ + powerOf(sender)]
    /\ history' = [history EXCEPT
           ![id][sender].reveals = @ + 1,
           ![id][sender].choice = choice,
           ![id][sender].salt = salt,
           ![id][sender].power = powerOf(sender)]

\* revealVoteEffect that clears hasVoted once the vote is counted
revealVoteEffectReopens(sender, id, choice, salt) ==
    /\ commitments' = [commitments EXCEPT ![id][sender].revealed = TRUE]
    /\ proposals' = [proposals EXCEPT
           ![id].hasVoted[sender] = FALSE,
           ![id].voteResults[choice] = @ + powerOf(sender),
           ![id].totalVotes = @ + powerOf(sender)]
    /\ history' = [history EXCEPT
           ![id][sender].reveals = @ + 1,
           ![id][sender].choice = choice,
           ![id][sender].salt = salt,
           ![id][sender].power = powerOf(sender)]

revealVoteEffect(sender, id, choice, salt) ==
    /\ commitments' = [commitments EXCEPT ![id][sender].revealed = TRUE]
    /\ proposals' = [proposals EXCEPT
           ![id].voteResults[choice] = @ + powerOf(sender),
           ![id].totalVotes = @ + powerOf(sender)]
    /\ history' = [history EXCEPT
           ![id][sender].reveals = @ + 1,
           ![id][sender].choice = choice,
           ![id][sender].salt = salt,
           ![id][sender].power = powerOf(sender)]

revealVote(sender, id, choice, salt) ==
    LET out == revealVoteOutcome(sender, id, choice, salt) IN
    /\ IF out = "ok"
       THEN revealVoteEffect(sender, id, choice, salt)
       ELSE UNCHANGED <<proposals, commitments, history>>
    /\ UNCHANGED <<now, proposalCount, defaultVotingPeriod, defaultRevealPeriod,
                   minimumQuorum, votingPower, roles, powerAssigned, returned>>

----------------------------------------------------------------------------
(* finalizeProposal, executeProposal, cancelProposal *)

\* finalizeProposalOutcome behind onlyRole(ADMIN_ROLE)
finalizeProposalOutcomeAdminOnly(sender, id) ==
    IF ~hasRole(ADMIN_ROLE, sender) THEN "AccessControlUnauthorizedAccount"
    ELSE IF proposals[id].state # "Active" THEN "Proposal not active"
    ELSE IF ~(now >= proposals[id].revealEndTime) THEN "Reveal period not ended"
    ELSE "ok"

\* finalizeProposalOutcome with block.timestamp > revealEndTime
finalizeProposalOutcomeStrictlyAfter(sender, id) ==
    IF proposals[id].state # "Active" THEN "Proposal not active"
    ELSE IF ~(now > proposals[id].revealEndTime) THEN "Reveal period not ended"
    ELSE "ok"


\* finalizeProposalOutcome without require(proposal.state == ProposalState.Active)
finalizeProposalOutcomeNoStateCheck(sender, id) ==
    IF ~(now >= proposals[id].revealEndTime) THEN "Reveal period not ended"
    ELSE "ok"

finalizeProposalOutcome(sender, id) ==
    IF proposals[id].state # "Active" THEN "Proposal not active"
    ELSE IF ~(now >= proposals[id].revealEndTime) THEN "Reveal period not ended"
    ELSE "ok"

\* finalizedState with totalVotes <= requiredQuorum
finalizedStateInclusive(id) ==
    IF proposals[id].totalVotes <= proposals[id].requiredQuorum
    THEN "Cancelled" ELSE "Ended"


\* finalizedState that leaves a proposal below its quorum open
finalizedStateBelowQuorumOpen(id) ==
    IF proposals[id].totalVotes < proposals[id].requiredQuorum
    THEN "Active" ELSE "Ended"

finalizedState(id) ==
    IF proposals[id].totalVotes < proposals[id].requiredQuorum
    THEN "Cancelled" ELSE "Ended"

finalizeProposal(sender, id) ==
    LET out == finalizeProposalOutcome(sender, id) IN
    /\ IF out = "ok"
       THEN proposals' = [proposals EXCEPT ![id].state = finalizedState(id)]
       ELSE UNCHANGED proposals
    /\ UNCHANGED <<now, proposalCount, defaultVotingPeriod, defaultRevealPeriod,
                   minimumQuorum, commitments, votingPower, roles, powerAssigned,
                   history, returned>>

\* executeProposalOutcome with forVotes >= againstVotes
executeProposalOutcomeTiePasses(sender, id) ==
    IF ~hasRole(ADMIN_ROLE, sender) THEN "AccessControlUnauthorizedAccount"
    ELSE IF proposals[id].state # "Ended" THEN "Proposal not ended"
    ELSE IF proposals[id].executed THEN "Already executed"
    ELSE IF ~(proposals[id].voteResults[For] >= proposals[id].voteResults[Against])
         THEN "Proposal not passed"
    ELSE "ok"


\* executeProposalOutcome accepting a proposal that is still Active
executeProposalOutcomeFromActive(sender, id) ==
    IF ~hasRole(ADMIN_ROLE, sender) THEN "AccessControlUnauthorizedAccount"
    ELSE IF proposals[id].state \notin {"Ended", "Active"} THEN "Proposal not ended"
    ELSE IF proposals[id].executed THEN "Already executed"
    ELSE IF ~(proposals[id].voteResults[For] > proposals[id].voteResults[Against])
         THEN "Proposal not passed"
    ELSE "ok"

executeProposalOutcome(sender, id) ==
    IF ~hasRole(ADMIN_ROLE, sender) THEN "AccessControlUnauthorizedAccount"
    ELSE IF proposals[id].state # "Ended" THEN "Proposal not ended"
    ELSE IF proposals[id].executed THEN "Already executed"
    ELSE IF ~(proposals[id].voteResults[For] > proposals[id].voteResults[Against])
         THEN "Proposal not passed"
    ELSE "ok"

executeProposal(sender, id) ==
    LET out == executeProposalOutcome(sender, id) IN
    /\ IF out = "ok"
       THEN proposals' = [proposals EXCEPT ![id].executed = TRUE,
                                           ![id].state = "Executed"]
       ELSE UNCHANGED proposals
    /\ UNCHANGED <<now, proposalCount, defaultVotingPeriod, defaultRevealPeriod,
                   minimumQuorum, commitments, votingPower, roles, powerAssigned,
                   history, returned>>

\* cancelProposalOutcome that also requires the voting window to be open
cancelProposalOutcomeVotingOnly(sender, id) ==
    IF ~hasRole(ADMIN_ROLE, sender) THEN "AccessControlUnauthorizedAccount"
    ELSE IF proposals[id].state # "Active" THEN "Cannot cancel"
    ELSE IF ~(now < proposals[id].endTime) THEN "Cannot cancel"
    ELSE "ok"

\* cancelProposalOutcome with require(proposal.state != ProposalState.Executed)
cancelProposalOutcomeNotExecuted(sender, id) ==
    IF ~hasRole(ADMIN_ROLE, sender) THEN "AccessControlUnauthorizedAccount"
    ELSE IF proposals[id].state = "Executed" THEN "Cannot cancel"
    ELSE "ok"


\* cancelProposalOutcome accepting an Ended proposal as well
cancelProposalOutcomeEndedToo(sender, id) ==
    IF ~hasRole(ADMIN_ROLE, sender) THEN "AccessControlUnauthorizedAccount"
    ELSE IF proposals[id].state \notin {"Active", "Ended"} THEN "Cannot cancel"
    ELSE "ok"

cancelProposalOutcome(sender, id) ==
    IF ~hasRole(ADMIN_ROLE, sender) THEN "AccessControlUnauthorizedAccount"
    ELSE IF proposals[id].state # "Active" THEN "Cannot cancel"
    ELSE "ok"

cancelProposal(sender, id) ==
    LET out == cancelProposalOutcome(sender, id) IN
    /\ IF out = "ok"
       THEN proposals' = [proposals EXCEPT ![id].state = "Cancelled"]
       ELSE UNCHANGED proposals
    /\ UNCHANGED <<now, proposalCount, defaultVotingPeriod, defaultRevealPeriod,
                   minimumQuorum, commitments, votingPower, roles, powerAssigned,
                   history, returned>>

----------------------------------------------------------------------------
(* setVotingPower, batchSetVotingPower, updateVotingParameters *)

setVotingPowerOutcome(sender) ==
    IF ~hasRole(ADMIN_ROLE, sender) THEN "AccessControlUnauthorizedAccount" ELSE "ok"

setVotingPower(sender, voter, power) ==
    LET out == setVotingPowerOutcome(sender) IN
    /\ IF out = "ok"
       THEN /\ votingPower' = [votingPower EXCEPT ![voter] = power]
            /\ powerAssigned' = powerAssigned \cup {voter}
       ELSE UNCHANGED <<votingPower, powerAssigned>>
    /\ UNCHANGED <<now, proposalCount, defaultVotingPeriod, defaultRevealPeriod,
                   minimumQuorum, proposals, commitments, roles, history, returned>>

batchSetVotingPowerOutcome(sender, voters, powers) ==
    IF ~hasRole(ADMIN_ROLE, sender) THEN "AccessControlUnauthorizedAccount"
    ELSE IF Len(voters) # Len(powers) THEN "Length mismatch"
    ELSE "ok"

RECURSIVE batchLoopSkipsLast(_, _, _, _)
\* batchLoop with i < voters.length - 1
batchLoopSkipsLast(vp, voters, powers, i) ==
    IF ~(i < Len(voters)) THEN vp
    ELSE batchLoopSkipsLast([vp EXCEPT ![voters[i]] = powers[i]], voters, powers, i + 1)

RECURSIVE batchLoop(_, _, _, _)
\* for (i = 0; i < voters.length; i++) votingPower[voters[i]] = powers[i]
batchLoop(vp, voters, powers, i) ==
    IF ~(i <= Len(voters)) THEN vp
    ELSE batchLoop([vp EXCEPT ![voters[i]] = powers[i]], voters, powers, i + 1)

batchSetVotingPower(sender, voters, powers) ==
    LET out == batchSetVotingPowerOutcome(sender, voters, powers) IN
    /\ IF out = "ok"
       THEN /\ votingPower' = batchLoop(votingPower, voters, powers, 1)
            /\ powerAssigned' = powerAssigned \cup {voters[i] : i \in 1 .. Len(voters)}
       ELSE UNCHANGED <<votingPower, powerAssigned>>
    /\ UNCHANGED <<now, proposalCount, defaultVotingPeriod, defaultRevealPeriod,
                   minimumQuorum, proposals, commitments, roles, history, returned>>

\* updateVotingParametersOutcome without require(newQuorum <= 100)
updateVotingParametersOutcomeAnyQuorum(sender, newVotingPeriod, newRevealPeriod, newQuorum) ==
    IF ~hasRole(ADMIN_ROLE, sender) THEN "AccessControlUnauthorizedAccount"
    ELSE IF ~(newVotingPeriod >= OneHour) THEN "Period too short"
    ELSE IF ~(newRevealPeriod >= OneHour) THEN "Reveal too short"
    ELSE "ok"

updateVotingParametersOutcome(sender, newVotingPeriod, newRevealPeriod, newQuorum) ==
    IF ~hasRole(ADMIN_ROLE, sender) THEN "AccessControlUnauthorizedAccount"
    ELSE IF ~(newVotingPeriod >= OneHour) THEN "Period too short"
    ELSE IF ~(newRevealPeriod >= OneHour) THEN "Reveal too short"
    ELSE IF ~(newQuorum <= 100) THEN "Quorum too high"
    ELSE "ok"


\* updateVotingParameters that also rewrites the quorum of the proposals
updateVotingParametersRetroactive(sender, newVotingPeriod, newRevealPeriod, newQuorum) ==
    LET out == updateVotingParametersOutcome(sender, newVotingPeriod, newRevealPeriod,
                                             newQuorum) IN
    /\ IF out = "ok"
       THEN /\ defaultVotingPeriod' = newVotingPeriod
            /\ defaultRevealPeriod' = newRevealPeriod
            /\ minimumQuorum' = newQuorum
            /\ proposals' = [i \in ProposalIds |->
                                IF i < proposalCount
                                THEN [proposals[i] EXCEPT !.requiredQuorum = newQuorum]
                                ELSE proposals[i]]
       ELSE UNCHANGED <<defaultVotingPeriod, defaultRevealPeriod, minimumQuorum,
                        proposals>>
    /\ UNCHANGED <<now, proposalCount, commitments, votingPower, roles,
                   powerAssigned, history, returned>>

updateVotingParameters(sender, newVotingPeriod, newRevealPeriod, newQuorum) ==
    LET out == updateVotingParametersOutcome(sender, newVotingPeriod, newRevealPeriod,
                                             newQuorum) IN
    /\ IF out = "ok"
       THEN /\ defaultVotingPeriod' = newVotingPeriod
            /\ defaultRevealPeriod' = newRevealPeriod
            /\ minimumQuorum' = newQuorum
       ELSE UNCHANGED <<defaultVotingPeriod, defaultRevealPeriod, minimumQuorum>>
    /\ UNCHANGED <<now, proposalCount, proposals, commitments, votingPower, roles,
                   powerAssigned, history, returned>>

----------------------------------------------------------------------------
(* The clock (block.timestamp) never goes back.  It is moved to the        *)
(* instants at which the window of some proposal closes, and to the        *)
(* second before each: every guard of the contract compares now with a     *)
(* proposal's startTime, endTime or revealEndTime.                         *)

Created == {i \in ProposalIds : i < proposalCount}

Boundaries ==
    UNION {{proposals[i].endTime - 1, proposals[i].endTime,
            proposals[i].revealEndTime - 1, proposals[i].revealEndTime} : i \in Created}

Tick ==
    /\ \E t \in Boundaries : t > now /\ now' = t
    /\ UNCHANGED <<proposalCount, defaultVotingPeriod, defaultRevealPeriod,
                   minimumQuorum, proposals, commitments, votingPower, roles,
                   powerAssigned, history, returned>>

----------------------------------------------------------------------------
(* Spec: one ballot in depth, every function called by every caller on     *)
(* every created proposal, and on the first id that was never created.     *)

CallOnUnknownId(s, i) ==
    \/ commitVote(s, i, keccakChoiceSalt(For, 1), getHexProof(s))
    \/ revealVote(s, i, For, 1)
    \/ finalizeProposal(s, i)
    \/ executeProposal(s, i)
    \/ cancelProposal(s, i)

Next ==
    \/ \E s \in Callers, t \in Titles, r \in RootInputs, vp \in PeriodInputs :
           proposalCount < MaxBallots /\ createProposal(s, t, r, vp)
    \/ \E s \in Callers, i \in Created, c \in CommitmentInputs, pf \in ProofInputs :
           commitVote(s, i, c, pf)
    \/ \E s \in Callers, i \in Created, c \in ChoiceInputs, salt \in Salts :
           revealVote(s, i, c, salt)
    \/ \E s \in Callers, i \in Created : finalizeProposal(s, i)
    \/ \E s \in Callers, i \in Created : executeProposal(s, i)
    \/ \E s \in Callers, i \in Created : cancelProposal(s, i)
    \/ \E s \in Callers, v \in PowerTargets, p \in PowerInputs :
           setVotingPower(s, v, p)
    \/ \E s \in Callers, b \in BatchInputs : batchSetVotingPower(s, b[1], b[2])
    \/ \E s \in Callers, vp \in NewPeriodInputs, rp \in NewPeriodInputs,
          q \in NewQuorumInputs : updateVotingParameters(s, vp, rp, q)
    \/ \E s \in Callers : CallOnUnknownId(s, proposalCount)
    \/ Tick

Spec == Init /\ [][Next]_vars

----------------------------------------------------------------------------
(* AccessControl.grantRole, inherited by the contract: the admin role of    *)
(* every role is DEFAULT_ADMIN_ROLE.                                        *)

grantRoleOutcome(sender, role) ==
    IF ~hasRole(DEFAULT_ADMIN_ROLE, sender) THEN "AccessControlUnauthorizedAccount"
    ELSE "ok"

grantRole(sender, role, account) ==
    LET out == grantRoleOutcome(sender, role) IN
    /\ IF out = "ok"
       THEN roles' = [roles EXCEPT ![role] = @ \cup {account}]
       ELSE UNCHANGED roles
    /\ UNCHANGED <<now, proposalCount, defaultVotingPeriod, defaultRevealPeriod,
                   minimumQuorum, proposals, commitments, votingPower, powerAssigned,
                   history, returned>>

----------------------------------------------------------------------------
(* SpecAdmin: the administration of several proposals.  Roles are granted,  *)
(* every caller calls every gated function, proposals are created one       *)
(* after the other; one voter votes For.                                    *)

\* the clock moves to the instant a window of some proposal closes
TickToClose ==
    /\ \E i \in Created :
           \E t \in {proposals[i].endTime, proposals[i].revealEndTime} :
               t > now /\ now' = t
    /\ UNCHANGED <<proposalCount, defaultVotingPeriod, defaultRevealPeriod,
                   minimumQuorum, proposals, commitments, votingPower, roles,
                   powerAssigned, history, returned>>

GrantInputs == {<<PROPOSER_ROLE, voter1>>, <<ADMIN_ROLE, voter2>>}
AdminPeriodInputs == {0}

NextAdmin ==
    \/ \E s \in Callers, g \in GrantInputs : grantRole(s, g[1], g[2])
    \/ \E s \in Callers, t \in Titles, r \in RootInputs, vp \in AdminPeriodInputs :
           proposalCount < MaxProposals /\ createProposal(s, t, r, vp)
    \/ \E i \in Created :
           commitVote(voter1, i, keccakChoiceSalt(For, 1), getHexProof(voter1))
    \/ \E i \in Created : revealVote(voter1, i, For, 1)
    \/ \E s \in Callers, i \in Created : finalizeProposal(s, i)
    \/ \E s \in Callers, i \in Created : executeProposal(s, i)
    \/ \E s \in Callers, i \in Created : cancelProposal(s, i)
    \/ \E s \in Callers : setVotingPower(s, voter1, 5)
    \/ \E s \in Callers : batchSetVotingPower(s, <<voter1>>, <<5>>)
    \/ \E s \in Callers : updateVotingParameters(s, OneHour, OneHour, 1)
    \/ \E s \in Callers : CallOnUnknownId(s, proposalCount)
    \/ TickToClose

SpecAdmin == Init /\ [][NextAdmin]_vars

----------------------------------------------------------------------------
(* Properties *)

\* the eligibility set the tree was built from
EligibleVoters == {voter1, voter2, voter3}

InCommitWindow(p) ==
    /\ proposals[p].state = "Active"
    /\ proposals[p].startTime <= now
    /\ now < proposals[p].endTime

InRevealWindow(p) ==
    /\ proposals[p].state = "Active"
    /\ proposals[p].endTime <= now
    /\ now < proposals[p].revealEndTime

RECURSIVE SumPower(_, _)
\* the weights the reveals of the voters in S applied on proposal p
SumPower(p, S) ==
    IF S = {} THEN 0
    ELSE LET v == CHOOSE x \in S : TRUE
         IN history[p][v].power + SumPower(p, S \ {v})

Revealed(p) == {v \in Addresses : commitments[p][v].revealed}

\* C1: no (proposal, identity) pair has two successful commitVote calls; the
\* stored commitment, timestamp and hasVoted are those of the one successful
\* call; while the proposal is Active and the voting window is open, every
\* further commitVote of an identity that committed is answered "Already
\* voted", whatever commitment and proof it carries, and the commitment is
\* still unrevealed.
C1_DoubleCommitRejected ==
    \A p \in ProposalIds, v \in Addresses :
        /\ history[p][v].commits <= 1
        /\ history[p][v].commits = 1 =>
             /\ proposals[p].hasVoted[v]
             /\ commitments[p][v].commitment = history[p][v].commitment
             /\ proposals[p].voteCommitments[v] = history[p][v].commitment
             /\ commitments[p][v].timestamp = history[p][v].committedAt
             /\ InCommitWindow(p) =>
                  /\ ~commitments[p][v].revealed
                  /\ \A c \in CommitmentInputs, pf \in ProofInputs :
                         commitVoteOutcome(v, p, c, pf) = "Already voted"

\* a voter has committed and the voting window is still open
C1_Witness ==
    \E p \in ProposalIds, v \in Callers :
        history[p][v].commits = 1 /\ InCommitWindow(p)

\* C2: no (proposal, identity) pair has two successful revealVote calls, so
\* its weight is added to the tallies at most once; while the proposal is
\* Active and the reveal window is open, every further revealVote of an
\* identity that revealed is answered "Already revealed".
C2_DoubleRevealRejected ==
    \A p \in ProposalIds, v \in Addresses :
        /\ history[p][v].reveals <= 1
        /\ history[p][v].reveals = 1 =>
             /\ commitments[p][v].revealed
             /\ InRevealWindow(p) =>
                  \A c \in ChoiceInputs, salt \in Salts :
                      revealVoteOutcome(v, p, c, salt) = "Already revealed"

\* a voter has revealed and the reveal window is still open
C2_Witness ==
    \E p \in ProposalIds, v \in Callers :
        history[p][v].reveals = 1 /\ InRevealWindow(p)

\* C3: a commitment is recorded for (p, v) only by a commitVote whose proof
\* verifies keccak(v) against the root of p, which is the inclusion proof of
\* v in the eligibility tree; an identity outside the eligibility set is
\* answered "Not eligible to vote" for every proof, the valid proof of an
\* eligible identity included, and has nothing recorded.
C3_EligibilityEnforced ==
    \A p \in ProposalIds, v \in Addresses :
        /\ (proposals[p].hasVoted[v] \/ commitments[p][v].commitment # ZeroHash) =>
             /\ history[p][v].commits >= 1
             /\ v \in EligibleVoters
             /\ history[p][v].proof = getHexProof(v)
             /\ verify(history[p][v].proof, proposals[p].merkleRoot, keccakAddress(v))
        /\ (v \notin EligibleVoters /\ InCommitWindow(p)) =>
             \A c \in CommitmentInputs \ {ZeroHash}, pf \in ProofInputs :
                 commitVoteOutcome(v, p, c, pf) = "Not eligible to vote"

\* voter1 has committed with its proof and the owner, who is not eligible,
\* can still call commitVote within the window
C3_Witness ==
    \E p \in ProposalIds :
        /\ InCommitWindow(p)
        /\ proposals[p].hasVoted[voter1]
        /\ history[p][voter1].proof = getHexProof(voter1)
        /\ ~proposals[p].hasVoted[owner]

\* the addition of the caller's weight leaves the word
RevealOverflows(p, v) == proposals[p].totalVotes + powerOf(v) > UintMax

\* an identity holds an unrevealed commitment on an Active proposal within
\* the reveal window
CanReveal(p, v) ==
    /\ InRevealWindow(p)
    /\ commitments[p][v].commitment # ZeroHash
    /\ ~commitments[p][v].revealed

\* C4 as stated: with an unrevealed commitment c, in the reveal window, for a
\* choice in {0,1,2}, revealVote succeeds if and only if
\* keccak(choice ++ salt) = c, and fails with "Invalid reveal" otherwise.
C4_RevealIffHashMatches ==
    \A p \in ProposalIds, v \in Addresses, c \in VoteOptions, salt \in Salts :
        CanReveal(p, v) =>
            /\ revealVoteOutcome(v, p, c, salt) = "ok"
                   <=> keccakChoiceSalt(c, salt) = commitments[p][v].commitment
            /\ keccakChoiceSalt(c, salt) # commitments[p][v].commitment
                   => revealVoteOutcome(v, p, c, salt) = "Invalid reveal"

\* C4 amended: revealVote succeeds if and only if keccak(choice ++ salt) = c
\* and adding the caller's weight does not overflow; a mismatch is answered
\* "Invalid reveal", a match whose weight overflows the total reverts with an
\* arithmetic panic; what a revealed identity had counted is the choice its
\* commitment was made for.
C4_RevealBinding ==
    \A p \in ProposalIds, v \in Addresses :
        /\ \A c \in VoteOptions, salt \in Salts :
               CanReveal(p, v) =>
                   /\ revealVoteOutcome(v, p, c, salt) = "ok"
                          <=> /\ keccakChoiceSalt(c, salt) = commitments[p][v].commitment
                              /\ ~RevealOverflows(p, v)
                   /\ keccakChoiceSalt(c, salt) # commitments[p][v].commitment
                          => revealVoteOutcome(v, p, c, salt) = "Invalid reveal"
                   /\ (/\ keccakChoiceSalt(c, salt) = commitments[p][v].commitment
                       /\ RevealOverflows(p, v))
                          => revealVoteOutcome(v, p, c, salt) = "Panic(0x11)"
        /\ commitments[p][v].revealed =>
               /\ history[p][v].choice \in VoteOptions
               /\ keccakChoiceSalt(history[p][v].choice, history[p][v].salt)
                      = history[p][v].commitment

\* one voter has revealed, and another, whose weight is the largest word,
\* holds an unrevealed commitment within the reveal window
C4_Witness ==
    \E p \in ProposalIds, v \in Callers, w \in Callers :
        /\ commitments[p][v].revealed
        /\ CanReveal(p, w)
        /\ votingPower[w] = UintMax

\* C5: a revealed pair stores a non-zero commitment, which is
\* keccak(choice ++ salt) of the reveal that set the flag; a stored
\* commitment is never modified.
C5_RevealedMatchesCommitment ==
    /\ [](\A p \in ProposalIds, v \in Addresses :
            commitments[p][v].revealed =>
                /\ commitments[p][v].commitment # ZeroHash
                /\ history[p][v].reveals = 1
                /\ commitments[p][v].commitment
                       = keccakChoiceSalt(history[p][v].choice, history[p][v].salt))
    /\ [][\A p \in ProposalIds, v \in Addresses :
            commitments[p][v].commitment # ZeroHash =>
                commitments'[p][v].commitment = commitments[p][v].commitment]_vars

\* a commitment made for Against was revealed
C5_Witness ==
    \E p \in ProposalIds, v \in Callers :
        /\ commitments[p][v].revealed
        /\ history[p][v].choice = Against
        /\ commitments[p][v].commitment = keccakChoiceSalt(Against, 1)

\* C6: the three tallies of a proposal add up to its totalVotes.
C6_TalliesSumToTotal ==
    \A p \in ProposalIds :
        proposals[p].voteResults[Abstain] + proposals[p].voteResults[For]
            + proposals[p].voteResults[Against] = proposals[p].totalVotes

\* two voters revealed different choices, one of them weighted
C6_Witness ==
    \E p \in ProposalIds :
        /\ proposals[p].voteResults[For] = 5
        /\ proposals[p].voteResults[Abstain] = 1

\* C7: totalVotes, and each tally, is the sum of the weights applied at the
\* reveals of the identities whose revealed flag is set (and who revealed that
\* choice); an identity that has not revealed contributed nothing.
C7_TalliedFromRevealed ==
    \A p \in ProposalIds :
        /\ proposals[p].totalVotes = SumPower(p, Revealed(p))
        /\ \A o \in VoteOptions :
               proposals[p].voteResults[o] =
                   SumPower(p, {v \in Revealed(p) : history[p][v].choice = o})
        /\ \A v \in Addresses :
               ~commitments[p][v].revealed =>
                   history[p][v].reveals = 0 /\ history[p][v].power = 0
        /\ \A v \in Revealed(p) : proposals[p].hasVoted[v] /\ history[p][v].power >= 1

\* one voter revealed and was counted, another committed and did not reveal
C7_Witness ==
    \E p \in ProposalIds, v \in Callers, w \in Callers :
        /\ commitments[p][v].revealed
        /\ proposals[p].hasVoted[w]
        /\ ~commitments[p][w].revealed
        /\ proposals[p].totalVotes = history[p][v].power
        /\ now >= proposals[p].revealEndTime

\* C8: commitVote fails before startTime and from endTime on, for every
\* caller, commitment and proof (on an Active proposal with "Voting not
\* started" and "Voting ended"); a recorded commitment carries a timestamp t
\* with startTime <= t < endTime.
C8_CommitWindow ==
    \A p \in ProposalIds, v \in Addresses :
        /\ \A c \in CommitmentInputs, pf \in ProofInputs :
               /\ (now < proposals[p].startTime \/ now >= proposals[p].endTime)
                      => commitVoteOutcome(v, p, c, pf) # "ok"
               /\ (proposals[p].state = "Active" /\ now < proposals[p].startTime)
                      => commitVoteOutcome(v, p, c, pf) = "Voting not started"
               /\ (/\ proposals[p].state = "Active"
                   /\ now >= proposals[p].startTime
                   /\ now >= proposals[p].endTime)
                      => commitVoteOutcome(v, p, c, pf) = "Voting ended"
        /\ commitments[p][v].commitment # ZeroHash =>
               /\ proposals[p].startTime <= commitments[p][v].timestamp
               /\ commitments[p][v].timestamp < proposals[p].endTime

\* the voting window of an Active proposal has just closed; one eligible
\* voter committed in it and another did not
C8_Witness ==
    \E p \in ProposalIds :
        /\ proposals[p].state = "Active"
        /\ now = proposals[p].endTime
        /\ commitments[p][voter1].commitment # ZeroHash
        /\ ~proposals[p].hasVoted[voter2]

\* C9: revealVote fails before endTime and from revealEndTime on, for every
\* caller, choice and salt (on an Active proposal with "Voting period not
\* ended" and "Reveal period ended"), a caller with a matching commitment
\* included; a revealed flag is only set from endTime on, and a commitment
\* that is unrevealed at or after revealEndTime stays unrevealed.
C9_RevealWindow ==
    /\ [](\A p \in ProposalIds, v \in Addresses :
            /\ \A c \in ChoiceInputs, salt \in Salts :
                   /\ (now < proposals[p].endTime \/ now >= proposals[p].revealEndTime)
                          => revealVoteOutcome(v, p, c, salt) # "ok"
                   /\ (proposals[p].state = "Active" /\ now < proposals[p].endTime)
                          => revealVoteOutcome(v, p, c, salt) = "Voting period not ended"
                   /\ (/\ proposals[p].state = "Active"
                       /\ now >= proposals[p].endTime
                       /\ now >= proposals[p].revealEndTime)
                          => revealVoteOutcome(v, p, c, salt) = "Reveal period ended"
            /\ commitments[p][v].revealed => now >= proposals[p].endTime)
    /\ [][\A p \in Created, v \in Addresses :
            (now >= proposals[p].revealEndTime /\ ~commitments[p][v].revealed)
                => ~commitments'[p][v].revealed]_vars

\* the reveal window of an Active proposal has closed on an unrevealed
\* commitment
C9_Witness ==
    \E p \in ProposalIds, v \in Callers :
        /\ proposals[p].state = "Active"
        /\ now >= proposals[p].revealEndTime
        /\ commitments[p][v].commitment # ZeroHash
        /\ ~commitments[p][v].revealed

\* C10: for every caller, finalizeProposal succeeds if and only if the
\* proposal is Active and now >= revealEndTime; on a proposal that is not
\* Active it is answered "Proposal not active", before revealEndTime "Reveal
\* period not ended"; a proposal is Ended only from its revealEndTime on.
C10_FinalizeCondition ==
    \A p \in ProposalIds :
        /\ \A s \in Addresses :
               /\ finalizeProposalOutcome(s, p) = "ok"
                      <=> (proposals[p].state = "Active" /\ now >= proposals[p].revealEndTime)
               /\ proposals[p].state # "Active"
                      => finalizeProposalOutcome(s, p) = "Proposal not active"
               /\ (proposals[p].state = "Active" /\ now < proposals[p].revealEndTime)
                      => finalizeProposalOutcome(s, p) = "Reveal period not ended"
        /\ proposals[p].state = "Ended" => now >= proposals[p].revealEndTime

\* a proposal was finalized to Ended
C10_Witness ==
    \E p \in ProposalIds :
        proposals[p].state = "Ended" /\ proposals[p].totalVotes >= proposals[p].requiredQuorum

PhaseNames == {"Pending", "Active", "Ended", "Executed", "Cancelled"}

C12_ExecuteCondition ==
    \A p \in ProposalIds :
        /\ \A s \in Addresses :
               hasRole(ADMIN_ROLE, s) =>
                   /\ executeProposalOutcome(s, p) = "ok"
                          <=> /\ proposals[p].state = "Ended"
                              /\ proposals[p].voteResults[For]
                                     > proposals[p].voteResults[Against]
                   /\ (/\ proposals[p].state = "Ended"
                       /\ proposals[p].voteResults[For]
                              <= proposals[p].voteResults[Against])
                          => executeProposalOutcome(s, p) = "Proposal not passed"
        /\ proposals[p].executed <=> proposals[p].state = "Executed"
        /\ proposals[p].state = "Executed" =>
               proposals[p].voteResults[For] > proposals[p].voteResults[Against]

\* a proposal with votes against it was executed
C12_Witness ==
    \E p \in ProposalIds :
        /\ proposals[p].state = "Executed"
        /\ proposals[p].executed
        /\ proposals[p].voteResults[Against] >= 1

\* C13: for a caller holding ADMIN_ROLE, cancelProposal succeeds if and only
\* if the proposal is Active, whatever the time (voting window, reveal
\* window, after revealEndTime); on a proposal in Pending, Ended, Executed
\* or Cancelled it is answered "Cannot cancel".
C13_CancelWhileActive ==
    \A p \in ProposalIds :
        /\ proposals[p].state \in PhaseNames
        /\ \A s \in Addresses :
               hasRole(ADMIN_ROLE, s) =>
                   /\ cancelProposalOutcome(s, p) = "ok" <=> proposals[p].state = "Active"
                   /\ proposals[p].state \in {"Pending", "Ended", "Executed", "Cancelled"}
                          => cancelProposalOutcome(s, p) = "Cannot cancel"

\* a proposal holding a commitment was cancelled within its reveal window,
\* when finalizeProposal cannot have acted
C13_Witness ==
    \E p \in ProposalIds, v \in Callers :
        /\ proposals[p].state = "Cancelled"
        /\ proposals[p].endTime <= now
        /\ now < proposals[p].revealEndTime
        /\ commitments[p][v].commitment # ZeroHash

\* C14: the state of a proposal only changes Pending -> Active (and then it
\* is the proposal being created), Active -> Ended, Active -> Cancelled or
\* Ended -> Executed: nothing returns to Active, and Executed and Cancelled
\* are left by no step.
C14_OneDirectional ==
    [][\A p \in ProposalIds :
          proposals'[p].state # proposals[p].state =>
              /\ <<proposals[p].state, proposals'[p].state>> \in
                     {<<"Pending", "Active">>, <<"Active", "Ended">>,
                      <<"Active", "Cancelled">>, <<"Ended", "Executed">>}
              /\ proposals[p].state = "Pending" =>
                     p = proposalCount /\ proposalCount' = proposalCount + 1]_vars

\* a proposal went all the way to Executed, and the clock is past its
\* reveal window
C14_Witness ==
    \E p \in ProposalIds :
        /\ proposals[p].state = "Executed"
        /\ now >= proposals[p].revealEndTime
        /\ p < proposalCount

\* the step sets the revealed flag of (p, v): a successful revealVote
RevealStep(p, v) == ~commitments[p][v].revealed /\ commitments'[p][v].revealed

\* the tallies of p move by weight w on the choice v revealed, and nowhere else
TalliesMoveBy(p, v, w) ==
    LET c == history'[p][v].choice IN
    /\ c \in VoteOptions
    /\ proposals'[p].voteResults[c] = proposals[p].voteResults[c] + w
    /\ proposals'[p].totalVotes = proposals[p].totalVotes + w
    /\ \A o \in VoteOptions \ {c} :
           proposals'[p].voteResults[o] = proposals[p].voteResults[o]

\* C15 as stated: a successful revealVote of v moves the tally of its choice
\* and totalVotes by VotingPower[v] when an admin has assigned v a weight,
\* and by 1 when no weight was ever assigned to v; the other tallies stay.
C15_WeightWhenAssigned ==
    [][\A p \in ProposalIds, v \in Addresses :
          RevealStep(p, v) =>
              TalliesMoveBy(p, v, IF v \in powerAssigned THEN votingPower[v] ELSE 1)]_vars

\* C15 amended: a successful revealVote of v moves the tally of its choice
\* and totalVotes by VotingPower[v] when that is above 0, and by 1 when it
\* is 0, whether no weight was ever assigned to v or an admin assigned the
\* weight 0; the other tallies stay.
C15_WeightedTally ==
    [][\A p \in ProposalIds, v \in Addresses :
          RevealStep(p, v) =>
              TalliesMoveBy(p, v, IF votingPower[v] > 0 THEN votingPower[v] ELSE 1)]_vars

\* a voter an admin assigned the weight 0 has revealed and was counted 1,
\* next to a voter who was never assigned a weight
C15_Witness ==
    \E p \in ProposalIds, v \in Callers, w \in Callers :
        /\ commitments[p][v].revealed
        /\ v \in powerAssigned
        /\ votingPower[v] = 0
        /\ history[p][v].power = 1
        /\ commitments[p][w].revealed
        /\ w \notin powerAssigned

Unauthorized == "AccessControlUnauthorizedAccount"

\* C16: a caller without PROPOSER_ROLE is rejected by createProposal, and a
\* caller without ADMIN_ROLE by executeProposal, cancelProposal,
\* setVotingPower, batchSetVotingPower and updateVotingParameters, whatever
\* the arguments and whatever other role the caller holds; the proposer of
\* every created proposal holds PROPOSER_ROLE; commitVote, revealVote and
\* finalizeProposal reject no caller for a missing role.
C16_RoleGating ==
    /\ \A s \in Addresses :
           /\ ~hasRole(PROPOSER_ROLE, s) =>
                  \A t \in Titles, r \in RootInputs, vp \in PeriodInputs :
                      createProposalOutcome(s, t, r, vp) = Unauthorized
           /\ ~hasRole(ADMIN_ROLE, s) =>
                  /\ \A p \in ProposalIds :
                         /\ executeProposalOutcome(s, p) = Unauthorized
                         /\ cancelProposalOutcome(s, p) = Unauthorized
                  /\ setVotingPowerOutcome(s) = Unauthorized
                  /\ \A b \in BatchInputs :
                         batchSetVotingPowerOutcome(s, b[1], b[2]) = Unauthorized
                  /\ \A vp \in NewPeriodInputs, rp \in NewPeriodInputs,
                        q \in NewQuorumInputs :
                         updateVotingParametersOutcome(s, vp, rp, q) = Unauthorized
           /\ \A p \in ProposalIds :
                  /\ finalizeProposalOutcome(s, p) # Unauthorized
                  /\ \A c \in CommitmentInputs, pf \in ProofInputs :
                         commitVoteOutcome(s, p, c, pf) # Unauthorized
                  /\ \A c \in ChoiceInputs, salt \in Salts :
                         revealVoteOutcome(s, p, c, salt) # Unauthorized
    /\ \A p \in Created : hasRole(PROPOSER_ROLE, proposals[p].proposer)

\* a proposer who is no admin has created a proposal, an admin who is no
\* proposer has cancelled it, and the voter who committed on it had no role
\* when doing so
C16_Witness ==
    \E p \in Created :
        /\ proposals[p].proposer = voter1
        /\ ~hasRole(ADMIN_ROLE, voter1)
        /\ hasRole(ADMIN_ROLE, voter2)
        /\ ~hasRole(PROPOSER_ROLE, voter2)
        /\ proposals[p].state = "Cancelled"
        /\ now < proposals[p].revealEndTime
        /\ votingPower[voter1] = 5

\* C17: for a caller holding PROPOSER_ROLE, createProposal with an empty
\* title is answered "Title required" and with a title and the zero root
\* "Invalid merkle root"; for no caller does such a call succeed; every
\* created proposal has a non-empty title and a non-zero root.
C17_CreationValidated ==
    /\ \A s \in Addresses, t \in Titles, r \in RootInputs, vp \in PeriodInputs :
           /\ (t = "" \/ r = ZeroHash) => createProposalOutcome(s, t, r, vp) # "ok"
           /\ (hasRole(PROPOSER_ROLE, s) /\ t = "")
                  => createProposalOutcome(s, t, r, vp) = "Title required"
           /\ (hasRole(PROPOSER_ROLE, s) /\ t # "" /\ r = ZeroHash)
                  => createProposalOutcome(s, t, r, vp) = "Invalid merkle root"
    /\ \A p \in Created :
           proposals[p].title # "" /\ proposals[p].merkleRoot # ZeroHash

\* one proposal exists, with its title and root, and a further creation is
\* possible
C17_Witness ==
    /\ proposalCount = 1
    /\ proposals[0].title = "Test Proposal"
    /\ proposals[0].merkleRoot = merkleRoot
    /\ proposals[0].hasVoted[voter1]

\* the three time fields of proposal p
Times(p) == <<proposals[p].startTime, proposals[p].endTime, proposals[p].revealEndTime>>

\* C18: a successful createProposal with period vp sets startTime = now,
\* endTime = startTime + vp if vp > 0 and startTime + the default voting
\* period of that moment otherwise, and revealEndTime = endTime + the default
\* reveal period of that moment; no step changes the three fields of a
\* created proposal; for every created proposal startTime < endTime <
\* revealEndTime.
C18_TimeBoundaries ==
    /\ [](\A p \in Created :
             /\ proposals[p].startTime < proposals[p].endTime
             /\ proposals[p].endTime < proposals[p].revealEndTime)
    /\ [][/\ \A p \in Created : Times(p)' = Times(p)
          /\ proposalCount' # proposalCount =>
                 \A s \in Callers, t \in Titles, r \in RootInputs, vp \in PeriodInputs :
                     createProposal(s, t, r, vp)
                         => LET n == proposals'[proposalCount] IN
                            /\ n.startTime = now
                            /\ n.endTime = n.startTime
                                   + (IF vp > 0 THEN vp ELSE defaultVotingPeriod)
                            /\ n.revealEndTime = n.endTime + defaultRevealPeriod]_vars

\* a proposal created with period 0 after the defaults were lowered to one
\* hour
C18_Witness ==
    \E p \in Created :
        /\ proposals[p].endTime = proposals[p].startTime + OneHour
        /\ proposals[p].revealEndTime = proposals[p].endTime + OneHour

\* C19: the ids of the created proposals are 0 .. proposalCount - 1, each
\* stored under its own id, and the slots from proposalCount on were never
\* written; a step that changes proposalCount adds exactly 1 to it, and the
\* proposal it creates, under the id proposalCount had, is Active with
\* startTime = now, requiredQuorum = the minimum quorum of that moment, all
\* tallies and totalVotes 0, executed false and no commitment; it changes no
\* other proposal.
C19_SequentialIds ==
    /\ [](\A p \in ProposalIds :
             IF p < proposalCount
             THEN proposals[p].id = p /\ proposals[p].state # "Pending"
             ELSE proposals[p] = EmptyProposal)
    /\ [][proposalCount' # proposalCount =>
             LET n == proposals'[proposalCount] IN
             /\ proposalCount' = proposalCount + 1
             /\ n.id = proposalCount
             /\ n.state = "Active"
             /\ n.startTime = now
             /\ n.requiredQuorum = minimumQuorum
             /\ \A o \in VoteOptions : n.voteResults[o] = 0
             /\ n.totalVotes = 0
             /\ ~n.executed
             /\ \A a \in Addresses :
                    /\ ~n.hasVoted[a]
                    /\ n.voteCommitments[a] = ZeroHash
                    /\ commitments'[proposalCount][a] = EmptyCommitment
             /\ \A q \in ProposalIds \ {proposalCount} :
                    proposals'[q] = proposals[q]]_vars

\* a second proposal was created, under a lowered quorum, next to a first
\* one that holds a counted vote
C19_Witness ==
    /\ proposalCount = 2
    /\ proposals[0].totalVotes >= 1
    /\ proposals[0].requiredQuorum = InitialQuorum
    /\ proposals[1].id = 1
    /\ proposals[1].requiredQuorum = 1

\* C20: for a caller holding ADMIN_ROLE, updateVotingParameters is answered
\* "Period too short" for a voting period below one hour, "Reveal too short"
\* for a reveal period below one hour and "Quorum too high" for a quorum
\* above 100, and succeeds otherwise; the three parameters are the initial
\* ones or the three values of one accepted call; the default periods are
\* at least one hour and the minimum quorum and every proposal's
\* requiredQuorum at most 100.
C20_ParameterBounds ==
    /\ \A s \in Addresses :
           hasRole(ADMIN_ROLE, s) =>
               \A vp \in {0, OneHour - 1, OneHour, ThreeDays},
                  rp \in {0, OneHour - 1, OneHour, OneDay},
                  q \in {0, 1, 100, 101, UintMax} :
                   /\ updateVotingParametersOutcome(s, vp, rp, q) = "ok"
                          <=> (vp >= OneHour /\ rp >= OneHour /\ q <= 100)
                   /\ vp < OneHour
                          => updateVotingParametersOutcome(s, vp, rp, q) = "Period too short"
                   /\ (vp >= OneHour /\ rp < OneHour)
                          => updateVotingParametersOutcome(s, vp, rp, q) = "Reveal too short"
                   /\ (vp >= OneHour /\ rp >= OneHour /\ q > 100)
                          => updateVotingParametersOutcome(s, vp, rp, q) = "Quorum too high"
    /\ \/ <<defaultVotingPeriod, defaultRevealPeriod, minimumQuorum>>
              = <<ThreeDays, OneDay, InitialQuorum>>
       \/ \E vp \in NewPeriodInputs, rp \in NewPeriodInputs, q \in NewQuorumInputs :
              /\ vp >= OneHour /\ rp >= OneHour /\ q <= 100
              /\ <<defaultVotingPeriod, defaultRevealPeriod, minimumQuorum>>
                     = <<vp, rp, q>>
    /\ defaultVotingPeriod >= OneHour
    /\ defaultRevealPeriod >= OneHour
    /\ minimumQuorum <= 100
    /\ \A p \in ProposalIds : proposals[p].requiredQuorum <= 100

\* the three parameters were updated and a proposal was created under them
C20_Witness ==
    /\ defaultVotingPeriod = OneHour
    /\ defaultRevealPeriod = OneHour
    /\ minimumQuorum = 1
    /\ \E p \in Created : proposals[p].requiredQuorum = 1

\* the sequences of at most two elements of S
SeqsUpTo2(S) == {<<>>} \cup {<<a>> : a \in S} \cup {<<a, b>> : a \in S, b \in S}

RECURSIVE SetInOrder(_, _, _)
\* the mapping after setVotingPower(voters[i], powers[i]) for each i in order
SetInOrder(vp, voters, powers) ==
    IF voters = <<>> THEN vp
    ELSE SetInOrder([vp EXCEPT ![Head(voters)] = Head(powers)], Tail(voters), Tail(powers))

\* the last position of identity a in voters, 0 when a is not listed
LastIndex(voters, a) ==
    IF \E i \in 1 .. Len(voters) : voters[i] = a
    THEN CHOOSE i \in 1 .. Len(voters) :
             /\ voters[i] = a
             /\ \A j \in 1 .. Len(voters) : voters[j] = a => j <= i
    ELSE 0

\* C21: for a caller holding ADMIN_ROLE, batchSetVotingPower is answered
\* "Length mismatch" exactly when the two sequences differ in length; with
\* equal lengths the mapping it writes is the one setVotingPower(voters[i],
\* powers[i]) for i in order leaves: a listed identity holds the weight of
\* its last position, an identity not listed keeps its weight.
C21_BatchEqualsSequence ==
    \A voters \in SeqsUpTo2({voter1, voter2}), powers \in SeqsUpTo2({0, 5, 7}) :
        /\ \A s \in Addresses :
               hasRole(ADMIN_ROLE, s) =>
                   /\ batchSetVotingPowerOutcome(s, voters, powers) = "Length mismatch"
                          <=> Len(voters) # Len(powers)
                   /\ batchSetVotingPowerOutcome(s, voters, powers) = "ok"
                          <=> Len(voters) = Len(powers)
        /\ Len(voters) = Len(powers) =>
               LET after == batchLoop(votingPower, voters, powers, 1) IN
               /\ after = SetInOrder(votingPower, voters, powers)
               /\ \A a \in Addresses :
                      after[a] = IF LastIndex(voters, a) = 0 THEN votingPower[a]
                                 ELSE powers[LastIndex(voters, a)]

\* a weight is stored for voter2, listed twice in a batch whose last weight
\* is 5, and for no one else
C21_Witness ==
    /\ votingPower[voter2] = 5
    /\ powerAssigned = {voter2}
    /\ \A a \in Addresses \ {voter2} : votingPower[a] = 0
    /\ proposalCount = 0

\* the parts of the state one call can write
ParamsOf == <<defaultVotingPeriod, defaultRevealPeriod, minimumQuorum>>
PowerOf == <<votingPower, powerAssigned>>
BallotsOf == <<proposals, commitments, history>>

\* the number of true values among the elements of a sequence of booleans
CountTrue(bs) == Cardinality({i \in 1 .. Len(bs) : bs[i]})

\* the step writes the slots of the pair (p, v)
PairWritten(p, v) ==
    \/ commitments'[p][v] # commitments[p][v]
    \/ history'[p][v] # history[p][v]
    \/ proposals'[p].hasVoted[v] # proposals[p].hasVoted[v]
    \/ proposals'[p].voteCommitments[v] # proposals[p].voteCommitments[v]

\* the step is a commitVote of v on p that passed every requirement
CommitStep(p, v) ==
    /\ ~proposals[p].hasVoted[v] /\ proposals'[p].hasVoted[v]
    /\ commitVoteOutcome(v, p, commitments'[p][v].commitment, history'[p][v].proof) = "ok"
    /\ proposals' = [proposals EXCEPT
           ![p].hasVoted[v] = TRUE,
           ![p].voteCommitments[v] = commitments'[p][v].commitment]

\* the step is a revealVote of v on p that passed every requirement
PassedRevealStep(p, v) ==
    /\ RevealStep(p, v)
    /\ revealVoteOutcome(v, p, history'[p][v].choice, history'[p][v].salt) = "ok"
    /\ proposals'[p].hasVoted = proposals[p].hasVoted
    /\ proposals'[p].voteCommitments = proposals[p].voteCommitments

\* the step is a finalizeProposal, cancelProposal or executeProposal on p
\* that passed every requirement; it writes state and executed only
PhaseStep(p) ==
    /\ proposals'[p].state # proposals[p].state
    /\ \/ /\ proposals'[p].state = finalizedState(p)
          /\ \E s \in Addresses : finalizeProposalOutcome(s, p) = "ok"
          /\ proposals' = [proposals EXCEPT ![p].state = finalizedState(p)]
       \/ /\ \E s \in Addresses : cancelProposalOutcome(s, p) = "ok"
          /\ proposals' = [proposals EXCEPT ![p].state = "Cancelled"]
       \/ /\ \E s \in Addresses : executeProposalOutcome(s, p) = "ok"
          /\ proposals' = [proposals EXCEPT ![p].state = "Executed", ![p].executed = TRUE]
    /\ UNCHANGED <<commitments, history>>

\* C22: a step changes the state only as one call that passed all its
\* requirements does.  It writes one part of the state (the clock, the
\* roles, the parameters, the voting powers, or the proposals with their
\* commitments) and leaves the others as they were; a new proposal comes
\* from a createProposal that was answered "ok", new parameters from an
\* updateVotingParameters answered "ok", a new voting power from a call of an
\* admin, and a change in a proposal is the whole effect of one commitVote,
\* revealVote, finalizeProposal, cancelProposal or executeProposal answered
\* "ok", on one proposal and one identity.  A call that is answered anything
\* else therefore leaves every part as it was.
C22_FailedCallsChangeNothing ==
    [][/\ CountTrue(<<now' # now, roles' # roles, ParamsOf' # ParamsOf,
                      PowerOf' # PowerOf, BallotsOf' # BallotsOf>>) <= 1
       /\ proposalCount' # proposalCount =>
              LET n == proposals'[proposalCount] IN
              /\ \E vp \in PeriodInputs :
                     /\ createProposalOutcome(n.proposer, n.title, n.merkleRoot, vp) = "ok"
                     /\ proposals' = [proposals EXCEPT ![proposalCount] =
                            newProposal(n.proposer, n.title, n.merkleRoot, vp)]
              /\ UNCHANGED <<commitments, history>>
       /\ ParamsOf' # ParamsOf =>
              \E s \in Addresses :
                  updateVotingParametersOutcome(s, defaultVotingPeriod',
                      defaultRevealPeriod', minimumQuorum') = "ok"
       /\ PowerOf' # PowerOf =>
              \E s \in Addresses : setVotingPowerOutcome(s) = "ok"
       /\ (BallotsOf' # BallotsOf /\ proposalCount' = proposalCount) =>
              \E p \in ProposalIds :
                  /\ \A q \in ProposalIds \ {p} :
                         /\ proposals'[q] = proposals[q]
                         /\ commitments'[q] = commitments[q]
                         /\ history'[q] = history[q]
                  /\ \/ PhaseStep(p)
                     \/ \E v \in Addresses :
                            /\ \A w \in Addresses \ {v} : ~PairWritten(p, w)
                            /\ proposals'[p].state = proposals[p].state
                            /\ CommitStep(p, v) \/ PassedRevealStep(p, v)]_vars

\* a state every function can be called in, most of them to fail: the
\* reveal window of a proposal with one revealed and one unrevealed
\* commitment, after a weight was assigned and the parameters were updated
C22_Witness ==
    \E p \in Created :
        /\ InRevealWindow(p)
        /\ commitments[p][voter1].revealed
        /\ CanReveal(p, voter2)
        /\ votingPower[voter2] = 5
        /\ minimumQuorum = 1

\* the message of the first check of a sequence of <<holds, message>> pairs
\* that does not hold, "ok" when all hold
FirstViolated(checks) ==
    IF \E i \in 1 .. Len(checks) : ~checks[i][1]
    THEN LET first == CHOOSE i \in 1 .. Len(checks) :
                          /\ ~checks[i][1]
                          /\ \A j \in 1 .. (i - 1) : checks[j][1]
         IN checks[first][2]
    ELSE "ok"

\* the six preconditions of commitVote in the order of the claim
CommitPreconditions(v, p, c, pf) ==
    <<<<proposals[p].state = "Active", "Proposal not active">>,
      <<now >= proposals[p].startTime, "Voting not started">>,
      <<now < proposals[p].endTime, "Voting ended">>,
      <<~proposals[p].hasVoted[v], "Already voted">>,
      <<c # ZeroHash, "Invalid commitment">>,
      <<verify(pf, proposals[p].merkleRoot, keccakAddress(v)), "Not eligible to vote">>>>

\* C23: commitVote is answered with the message of the first precondition
\* that is violated, in the order state Active, now >= startTime, now <
\* endTime, not already committed, commitment non-zero, proof verifies for
\* keccak(caller); a caller who committed and submits the zero commitment is
\* answered "Already voted", an ineligible caller who submits the zero
\* commitment "Invalid commitment".
C23_CommitCheckOrder ==
    \A p \in ProposalIds, v \in Addresses, pf \in ProofInputs :
        /\ \A c \in CommitmentInputs :
               commitVoteOutcome(v, p, c, pf) = FirstViolated(CommitPreconditions(v, p, c, pf))
        /\ (InCommitWindow(p) /\ proposals[p].hasVoted[v])
               => commitVoteOutcome(v, p, ZeroHash, pf) = "Already voted"
        /\ (InCommitWindow(p) /\ ~proposals[p].hasVoted[v] /\ v \notin EligibleVoters)
               => commitVoteOutcome(v, p, ZeroHash, pf) = "Invalid commitment"

\* the last second of the voting window: one voter has committed, the
\* owner, who is not eligible, has not
C23_Witness ==
    \E p \in Created :
        /\ proposals[p].state = "Active"
        /\ now = proposals[p].endTime - 1
        /\ proposals[p].hasVoted[voter2]
        /\ ~proposals[p].hasVoted[owner]

\* C24 as stated: executeProposal by an admin on a proposal that was
\* executed is rejected as a duplicate, with "Already executed", and the
\* proposal stays Executed with executed = true.
C24_SecondExecuteIsDuplicate ==
    \A p \in ProposalIds, s \in Addresses :
        (hasRole(ADMIN_ROLE, s) /\ proposals[p].state = "Executed") =>
            /\ proposals[p].executed
            /\ executeProposalOutcome(s, p) = "Already executed"

\* what the contract does: executeProposal on an executed proposal is
\* rejected by the state check, with "Proposal not ended"; no reachable call is
\* answered "Already executed".
C24_SecondExecuteNotEnded ==
    \A p \in ProposalIds, s \in Addresses :
        /\ executeProposalOutcome(s, p) # "Already executed"
        /\ (hasRole(ADMIN_ROLE, s) /\ proposals[p].state = "Executed") =>
               /\ proposals[p].executed
               /\ executeProposalOutcome(s, p) = "Proposal not ended"

\* an executed proposal, on which the admin can call executeProposal again
C24_Witness ==
    \E p \in Created :
        /\ proposals[p].state = "Executed"
        /\ proposals[p].executed
        /\ hasRole(ADMIN_ROLE, owner)
        /\ proposals[p].voteResults[For] >= 5

\* C25: for every (proposal, identity) pair, hasVoted is false and no
\* commitment is stored as long as no commitVote of the identity succeeded;
\* once hasVoted is true it stays true and the stored commitment and its
\* timestamp stay as they are; the revealed flag only goes from false to
\* true, in a step that is a successful revealVote of that identity, and is
\* only set on a pair with a commitment.
C25_CommitmentLifecycle ==
    /\ [](\A p \in ProposalIds, v \in Addresses :
             /\ history[p][v].commits = 0 =>
                    /\ ~proposals[p].hasVoted[v]
                    /\ proposals[p].voteCommitments[v] = ZeroHash
                    /\ commitments[p][v] = EmptyCommitment
             /\ proposals[p].hasVoted[v] => commitments[p][v].commitment # ZeroHash
             /\ commitments[p][v].revealed => proposals[p].hasVoted[v])
    /\ [][\A p \in ProposalIds, v \in Addresses :
             /\ proposals[p].hasVoted[v] =>
                    /\ proposals'[p].hasVoted[v]
                    /\ proposals'[p].voteCommitments[v] = proposals[p].voteCommitments[v]
                    /\ commitments'[p][v].commitment = commitments[p][v].commitment
                    /\ commitments'[p][v].timestamp = commitments[p][v].timestamp
             /\ (~proposals[p].hasVoted[v] /\ proposals'[p].hasVoted[v]) =>
                    /\ history'[p][v].commits = history[p][v].commits + 1
                    /\ ~commitments'[p][v].revealed
             /\ commitments[p][v].revealed => commitments'[p][v].revealed
             /\ commitments'[p][v].revealed # commitments[p][v].revealed =>
                    /\ history'[p][v].reveals = history[p][v].reveals + 1
                    /\ revealVoteOutcome(v, p, history'[p][v].choice,
                                         history'[p][v].salt) = "ok"]_vars

\* a proposal was closed with one commitment revealed and another one left
\* unrevealed, both still stored
C25_Witness ==
    \E p \in Created, v \in Callers, w \in Callers :
        /\ proposals[p].state \in {"Ended", "Cancelled"}
        /\ now >= proposals[p].revealEndTime
        /\ commitments[p][v].revealed
        /\ proposals[p].hasVoted[w]
        /\ commitments[p][w].commitment # ZeroHash
        /\ ~commitments[p][w].revealed

----------------------------------------------------------------------------
(* SpecMerkle: the eligibility check on its own.  Every address offers      *)
(* every proof of at most two of the hashes below to commitVote on a        *)
(* proposal over the tree of the tests.                                     *)

\* the hashes a proof is made of: the leaves, the inner node, and the leaf
\* of the owner, who is not in the tree
Siblings == {leaf1, leaf2, leaf3, node12, keccakAddress(owner)}
MerkleProofs == SeqsUpTo2(Siblings)

NextMerkle ==
    \/ \E s \in Callers, t \in Titles, r \in RootInputs, vp \in AdminPeriodInputs :
           proposalCount < MaxBallots /\ createProposal(s, t, r, vp)
    \/ \E s \in Addresses, i \in Created, c \in CommitmentInputs, pf \in MerkleProofs :
           commitVote(s, i, c, pf)
    \/ \E s \in Callers, i \in Created : cancelProposal(s, i)
    \/ Tick

SpecMerkle == Init /\ [][NextMerkle]_vars

\* the fold of a proof of at most two siblings over a leaf, written out
FoldUpTo2(pf, leaf) ==
    IF Len(pf) = 0 THEN leaf
    ELSE IF Len(pf) = 1 THEN keccakPair(Min(leaf, pf[1]), Max(leaf, pf[1]))
    ELSE LET acc == keccakPair(Min(leaf, pf[1]), Max(leaf, pf[1]))
         IN keccakPair(Min(acc, pf[2]), Max(acc, pf[2]))

\* C26: the parent of two hashes is keccak(min ++ max) and so the same for
\* both orders of its children; verify(proof, root, leaf) is a boolean, true
\* exactly when the fold of the proof over the leaf equals the root; in the
\* tree over the leaves of voter1, voter2 and voter3 the proof built for each
\* of them verifies and is the only one of the proofs that does; no proof
\* verifies for the leaf of the owner, who is outside the set; commitVote
\* records a commitment for the owners of a verifying proof only.
C26_MerkleVerification ==
    /\ \A a \in Siblings \cup {merkleRoot}, b \in Siblings \cup {merkleRoot} :
           /\ commutativeKeccak256(a, b) = commutativeKeccak256(b, a)
           /\ commutativeKeccak256(a, b) = keccakPair(Min(a, b), Max(a, b))
    /\ \A a \in Addresses, pf \in MerkleProofs :
           /\ verify(pf, merkleRoot, keccakAddress(a)) \in BOOLEAN
           /\ verify(pf, merkleRoot, keccakAddress(a))
                  <=> FoldUpTo2(pf, keccakAddress(a)) = merkleRoot
           /\ verify(pf, merkleRoot, keccakAddress(a))
                  <=> (a \in EligibleVoters /\ pf = getHexProof(a))
    /\ \A pf \in MerkleProofs : ~verify(pf, merkleRoot, keccakAddress(owner))
    /\ \A p \in Created, a \in Addresses :
           /\ proposals[p].hasVoted[a] =>
                  a \in EligibleVoters /\ history[p][a].proof = getHexProof(a)
           /\ (InCommitWindow(p) /\ ~proposals[p].hasVoted[a]) =>
                  \A pf \in MerkleProofs :
                      commitVoteOutcome(a, p, keccakChoiceSalt(For, 1), pf) = "ok"
                          <=> (a \in EligibleVoters /\ pf = getHexProof(a))

\* the three identities of the tree have committed, each with its proof,
\* voter3 with the one-sibling proof of the leaf that is carried up
C26_Witness ==
    \E p \in Created :
        /\ \A a \in EligibleVoters :
               proposals[p].hasVoted[a] /\ history[p][a].proof = getHexProof(a)
        /\ Len(history[p][voter3].proof) = 1
        /\ ~proposals[p].hasVoted[owner]

----------------------------------------------------------------------------
(* View functions: what a call returns, computed from the storage.          *)

getProposalState(proposalId) == proposals[proposalId].state

\* (forVotes, againstVotes, abstain, total)
getProposalResults(proposalId) ==
    LET proposal == proposals[proposalId] IN
    <<proposal.voteResults[For], proposal.voteResults[Against],
      proposal.voteResults[Abstain], proposal.totalVotes>>

hasVoted(proposalId, voter) == proposals[proposalId].hasVoted[voter]

hasRevealed(proposalId, voter) == commitments[proposalId][voter].revealed

getProposalInfo(proposalId) ==
    LET proposal == proposals[proposalId] IN
    <<proposal.proposer, proposal.title, proposal.description, proposal.startTime,
      proposal.endTime, proposal.revealEndTime, proposal.state>>

----------------------------------------------------------------------------
(* The end-to-end run of the tests: a proposal with a voting period of one  *)
(* second, one unweighted voter, one vote For.                              *)

\* proposal p was created with votingPeriod 1 under the deployment parameters
\* over the tree of the tests, and voter1 has no weight
OneSecondBallot(p) ==
    /\ proposals[p].endTime = proposals[p].startTime + 1
    /\ proposals[p].revealEndTime = proposals[p].endTime + OneDay
    /\ proposals[p].requiredQuorum = InitialQuorum
    /\ proposals[p].merkleRoot = merkleRoot
    /\ votingPower[voter1] = 0

\* voter1 revealed For on p and nobody else revealed
OnlyVoter1RevealedFor(p) ==
    /\ hasRevealed(p, voter1)
    /\ history[p][voter1].choice = For
    /\ \A a \in Addresses \ {voter1} : ~hasRevealed(p, a)

\* C27: on a proposal created with a voting period of one second, each step
\* of the run is accepted when its turn comes: voter1 commits hash(1 ++ salt)
\* with the proof of voter1 before endTime, reveals (1, salt) from endTime
\* on and before revealEndTime, anybody finalizes from revealEndTime on, and
\* once voter1 is the only one who revealed the results read
\* (forVotes 1, againstVotes 0, abstain 0, total 1).
C27_EndToEndScenario ==
    \A p \in Created : OneSecondBallot(p) =>
        /\ (InCommitWindow(p) /\ ~hasVoted(p, voter1)) =>
               commitVoteOutcome(voter1, p, keccakChoiceSalt(For, 1),
                                 getHexProof(voter1)) = "ok"
        /\ (/\ InRevealWindow(p)
            /\ commitments[p][voter1].commitment = keccakChoiceSalt(For, 1)
            /\ ~hasRevealed(p, voter1)
            /\ proposals[p].totalVotes = 0) =>
               revealVoteOutcome(voter1, p, For, 1) = "ok"
        /\ (getProposalState(p) = "Active" /\ now >= proposals[p].revealEndTime) =>
               \A s \in Callers : finalizeProposalOutcome(s, p) = "ok"
        /\ OnlyVoter1RevealedFor(p) => getProposalResults(p) = <<1, 0, 0, 1>>

\* the run is over: the proposal was finalized (below the quorum of 10, so
\* into Cancelled) with the single vote For of voter1 in the results
C27_Witness ==
    \E p \in Created :
        /\ OneSecondBallot(p)
        /\ OnlyVoter1RevealedFor(p)
        /\ history[p][voter1].commitment = keccakChoiceSalt(For, 1)
        /\ history[p][voter1].committedAt < proposals[p].endTime
        /\ now = proposals[p].revealEndTime
        /\ getProposalState(p) = "Cancelled"
        /\ getProposalResults(p) = <<1, 0, 0, 1>>

----------------------------------------------------------------------------
(* SpecReads: the view functions called between the calls of one small     *)
(* ballot. A call of a view records what it returned in `returned`.         *)

\* a call of a view: the query and the returned value, no storage write
returns(query, value) ==
    /\ returned' = [query |-> query, value |-> value]
    /\ UNCHANGED <<now, proposalCount, defaultVotingPeriod, defaultRevealPeriod,
                   minimumQuorum, proposals, commitments, votingPower, roles,
                   history, powerAssigned>>

\* call_getProposalState settling an expired proposal before answering
call_getProposalStateSettles(proposalId) ==
    /\ returned' = [query |-> <<"getProposalState", proposalId>>,
                    value |-> IF finalizeProposalOutcome(owner, proposalId) = "ok"
                              THEN finalizedState(proposalId)
                              ELSE getProposalState(proposalId)]
    /\ proposals' = IF finalizeProposalOutcome(owner, proposalId) = "ok"
                    THEN [proposals EXCEPT ![proposalId].state = finalizedState(proposalId)]
                    ELSE proposals
    /\ UNCHANGED <<now, proposalCount, defaultVotingPeriod, defaultRevealPeriod,
                   minimumQuorum, commitments, votingPower, roles, history,
                   powerAssigned>>

call_getProposalState(proposalId) ==
    returns(<<"getProposalState", proposalId>>, getProposalState(proposalId))

call_getProposalResults(proposalId) ==
    returns(<<"getProposalResults", proposalId>>, getProposalResults(proposalId))

call_hasVoted(proposalId, voter) ==
    returns(<<"hasVoted", proposalId, voter>>, hasVoted(proposalId, voter))

call_hasRevealed(proposalId, voter) ==
    returns(<<"hasRevealed", proposalId, voter>>, hasRevealed(proposalId, voter))

call_getProposalInfo(proposalId) ==
    returns(<<"getProposalInfo", proposalId>>, getProposalInfo(proposalId))

\* the voters the views are asked about: one of the tree, one outside it
ReadVoters == {voter1, owner}
\* the ids the views are asked about: the created ones and the next one
ReadIds == {i \in ProposalIds : i <= proposalCount}

NextReads ==
    \/ \E s \in Callers, t \in Titles, r \in RootInputs :
           proposalCount < MaxBallots /\ createProposal(s, t, r, 1)
    \/ \E i \in Created :
           commitVote(voter1, i, keccakChoiceSalt(For, 1), getHexProof(voter1))
    \/ \E i \in Created : revealVote(voter1, i, For, 1)
    \/ \E s \in Callers, i \in Created : finalizeProposal(s, i)
    \/ \E s \in Callers, i \in Created : cancelProposal(s, i)
    \/ \E i \in ReadIds : call_getProposalState(i)
    \/ \E i \in ReadIds : call_getProposalResults(i)
    \/ \E i \in ReadIds, v \in ReadVoters : call_hasVoted(i, v)
    \/ \E i \in ReadIds, v \in ReadVoters : call_hasRevealed(i, v)
    \/ \E i \in ReadIds : call_getProposalInfo(i)
    \/ Tick

SpecReads == Init /\ [][NextReads]_vars

\* what the view named in a query returns in the current state
ViewValue(query) ==
    IF Len(query) = 0 THEN <<>>
    ELSE IF query[1] = "getProposalState" THEN getProposalState(query[2])
    ELSE IF query[1] = "getProposalResults" THEN getProposalResults(query[2])
    ELSE IF query[1] = "hasVoted" THEN hasVoted(query[2], query[3])
    ELSE IF query[1] = "hasRevealed" THEN hasRevealed(query[2], query[3])
    ELSE getProposalInfo(query[2])

\* what every view returns in the current state
AllViews ==
    [i \in ProposalIds |->
        <<getProposalState(i), getProposalResults(i), getProposalInfo(i),
          [v \in Addresses |-> <<hasVoted(i, v), hasRevealed(i, v)>>]>>]

\* how every state-changing call of the ballot would be answered now
AllOutcomes ==
    [s \in Callers, i \in ProposalIds |->
        <<createProposalOutcome(s, "Test Proposal", merkleRoot, 1),
          commitVoteOutcome(s, i, keccakChoiceSalt(For, 1), getHexProof(s)),
          revealVoteOutcome(s, i, For, 1),
          finalizeProposalOutcome(s, i),
          executeProposalOutcome(s, i),
          cancelProposalOutcome(s, i),
          setVotingPowerOutcome(s),
          updateVotingParametersOutcome(s, OneHour, OneHour, 1)>>]

\* C28: a call of a view function (getProposalState, getProposalResults,
\* hasVoted, hasRevealed, getProposalInfo) changes nothing of the contract's
\* state: after it every variable of the storage and the clock are as before,
\* every view returns what it returned before, every state-changing call is
\* answered as it would have been without the read, and the value returned
\* is the view's value of the state the call was made in.
C28_ReadsChangeNothing ==
    [][returned' # returned =>
          /\ UNCHANGED <<now, proposalCount, defaultVotingPeriod, defaultRevealPeriod,
                         minimumQuorum, proposals, commitments, votingPower, roles,
                         history, powerAssigned>>
          /\ returned'.value = ViewValue(returned'.query)
          /\ AllViews' = AllViews
          /\ AllOutcomes' = AllOutcomes]_vars

\* getProposalResults was called before the only reveal, and answered with
\* empty tallies; the proposal now holds the vote of voter1
C28_Witness ==
    \E p \in Created :
        /\ returned = [query |-> <<"getProposalResults", p>>, value |-> <<0, 0, 0, 0>>]
        /\ getProposalResults(p) = <<1, 0, 0, 1>>
        /\ hasRevealed(p, voter1)

----------------------------------------------------------------------------
(* The state the constructor leaves.                                        *)

\* the deployer holds the three roles and nobody else holds one; no proposal
\* exists; the parameters are 3 days, 1 day and 10; no voting power is set
Deployed ==
    /\ hasRole(ADMIN_ROLE, owner)
    /\ hasRole(PROPOSER_ROLE, owner)
    /\ hasRole(DEFAULT_ADMIN_ROLE, owner)
    /\ \A r \in Roles, a \in Addresses \ {owner} : ~hasRole(r, a)
    /\ proposalCount = 0
    /\ defaultVotingPeriod = 259200
    /\ defaultRevealPeriod = 86400
    /\ minimumQuorum = 10
    /\ \A a \in Addresses : votingPower[a] = 0
    /\ powerAssigned = {}
    /\ \A i \in ProposalIds : getProposalState(i) = "Pending"

\* C29: the first state of every behaviour is the deployed state: the
\* deployer holds the admin role and the proposer role, proposalCount is 0,
\* the default voting period is 259200 s, the default reveal period is
\* 86400 s, the minimum quorum is 10, no other identity holds a role and no
\* voting power is set; and as long as no proposal was created every
\* proposal slot reads as the default, Pending.
C29_InitialState ==
    /\ Deployed
    /\ [](proposalCount = 0 => (\A i \in ProposalIds : getProposalState(i) = "Pending"))

\* the deployed state, in which the deployer can create the first proposal
C29_Witness ==
    /\ Deployed
    /\ now = 1
    /\ returned = NothingReturned
    /\ \E s \in Callers : createProposalOutcome(s, "Test Proposal", merkleRoot, 1) = "ok"

----------------------------------------------------------------------------
(* Privacy until reveal.                                                    *)

\* some caller's commitVote on p would succeed now
CommitCanSucceed(p) ==
    \E s \in Addresses, c \in CommitmentInputs,
       pf \in ProofInputs \cup {getHexProof(a) : a \in Addresses} :
        commitVoteOutcome(s, p, c, pf) = "ok"

\* some caller's revealVote on p would succeed now
RevealCanSucceed(p) ==
    \E s \in Addresses, c \in ChoiceInputs, salt \in Salts :
        revealVoteOutcome(s, p, c, salt) = "ok"

\* C30: the commit window [startTime, endTime) lies before the reveal window
\* [endTime, revealEndTime) of the same proposal, and in no state can both a
\* commitVote and a revealVote succeed on one proposal; a commitVote
\* succeeds only before endTime and a revealVote only from endTime on; while
\* now < endTime the three tallies and totalVotes of the proposal are 0 and
\* no revealed flag of it is set.
C30_PrivacyUntilReveal ==
    /\ \A p \in ProposalIds :
           /\ ~(CommitCanSucceed(p) /\ RevealCanSucceed(p))
           /\ CommitCanSucceed(p) => now < proposals[p].endTime
           /\ RevealCanSucceed(p) => now >= proposals[p].endTime
    /\ \A p \in Created :
           /\ proposals[p].startTime < proposals[p].endTime
           /\ proposals[p].endTime < proposals[p].revealEndTime
           /\ now < proposals[p].endTime =>
                  /\ getProposalResults(p) = <<0, 0, 0, 0>>
                  /\ \A a \in Addresses : ~hasRevealed(p, a)

\* the last second of the commit window: two voters have committed different
\* choices, a third still can, and nothing of the choices is in the tallies
C30_Witness ==
    \E p \in Created :
        /\ now = proposals[p].endTime - 1
        /\ hasVoted(p, voter1) /\ hasVoted(p, voter2)
        /\ history[p][voter1].commitment # history[p][voter2].commitment
        /\ commitVoteOutcome(voter3, p, keccakChoiceSalt(For, 1),
                             getHexProof(voter3)) = "ok"
        /\ ~RevealCanSucceed(p)
        /\ getProposalResults(p) = <<0, 0, 0, 0>>

----------------------------------------------------------------------------
(* After the Active state.                                                  *)

\* proposal p was created and is Ended, Executed or Cancelled
LeftActive(p) == proposals[p].state \in {"Ended", "Executed", "Cancelled"}

\* the tallies, the total and the vote records of proposal p
VotesOf(p) ==
    <<proposals[p].voteResults, proposals[p].totalVotes, proposals[p].hasVoted,
      proposals[p].voteCommitments, commitments[p]>>

\* C31: once a proposal is Ended, Executed or Cancelled no step changes its
\* tallies, its totalVotes, its commitments, its hasVoted flags or its
\* revealed flags, so the tallies executeProposal compares are those
\* finalizeProposal saw; and a step that changes votingPower changes the
\* answer of executeProposal for no caller on such a proposal.
C31_TalliesFrozen ==
    [][\A p \in ProposalIds : LeftActive(p) =>
          /\ VotesOf(p)' = VotesOf(p)
          /\ votingPower' # votingPower =>
                 \A s \in Callers :
                     executeProposalOutcome(s, p)' = executeProposalOutcome(s, p)]_vars

\* a proposal was finalized to Ended with 5 votes For, and the weight of the
\* voter who cast them was set to 0 afterwards
C31_Witness ==
    \E p \in Created :
        /\ proposals[p].state = "Ended"
        /\ getProposalResults(p) = <<5, 0, 0, 5>>
        /\ history[p][voter2].power = 5
        /\ votingPower[voter2] = 0

\* C32: a proposal in state Executed has more votes For than Against, at
\* least requiredQuorum votes in total, the executed flag set and its reveal
\* period over; the executed flag is set exactly on the proposals in state
\* Executed; a proposal becomes Executed only from Ended, the state that a
\* successful finalizeProposal alone writes.
C32_ExecutedInvariant ==
    /\ [](\A p \in ProposalIds :
             /\ proposals[p].executed <=> proposals[p].state = "Executed"
             /\ proposals[p].state = "Executed" =>
                    /\ proposals[p].voteResults[For] > proposals[p].voteResults[Against]
                    /\ proposals[p].totalVotes >= proposals[p].requiredQuorum
                    /\ now >= proposals[p].revealEndTime)
    /\ [][\A p \in ProposalIds :
             /\ (proposals[p].state # "Executed" /\ proposals'[p].state = "Executed") =>
                    proposals[p].state = "Ended"
             /\ (proposals[p].state # "Ended" /\ proposals'[p].state = "Ended") =>
                    /\ \A s \in Callers : finalizeProposalOutcome(s, p) = "ok"
                    /\ proposals[p].state = "Active"]_vars

\* a passed proposal was executed
C32_Witness ==
    \E p \in Created :
        /\ proposals[p].state = "Executed"
        /\ proposals[p].executed
        /\ proposals[p].totalVotes >= proposals[p].requiredQuorum
        /\ proposals[p].voteResults[Against] = 0

\* proposal p is Ended and did not pass
EndedNotPassed(p) ==
    /\ proposals[p].state = "Ended"
    /\ proposals[p].voteResults[For] <= proposals[p].voteResults[Against]

\* C33: a proposal that is Ended with no more votes For than Against stays
\* as it is: an admin's executeProposal is answered "Proposal not passed"
\* and an admin's cancelProposal "Cannot cancel", finalizeProposal,
\* commitVote and revealVote are answered "Proposal not active", no call on
\* it succeeds, and no step changes the proposal or its vote records.
C33_EndedNotPassedIsFinal ==
    /\ [](\A p \in ProposalIds : EndedNotPassed(p) =>
             \A s \in Callers :
                 /\ executeProposalOutcome(s, p) =
                        IF hasRole(ADMIN_ROLE, s) THEN "Proposal not passed"
                        ELSE "AccessControlUnauthorizedAccount"
                 /\ cancelProposalOutcome(s, p) =
                        IF hasRole(ADMIN_ROLE, s) THEN "Cannot cancel"
                        ELSE "AccessControlUnauthorizedAccount"
                 /\ finalizeProposalOutcome(s, p) = "Proposal not active"
                 /\ \A c \in CommitmentInputs, pf \in ProofInputs :
                        commitVoteOutcome(s, p, c, pf) = "Proposal not active"
                 /\ \A c \in ChoiceInputs, salt \in Salts :
                        revealVoteOutcome(s, p, c, salt) = "Proposal not active")
    /\ [][\A p \in ProposalIds : EndedNotPassed(p) =>
             /\ proposals'[p] = proposals[p]
             /\ commitments'[p] = commitments[p]
             /\ EndedNotPassed(p)']_vars

\* a proposal met its quorum with a vote that is not For and was finalized
C33_Witness ==
    \E p \in Created :
        /\ EndedNotPassed(p)
        /\ proposals[p].totalVotes >= 1
        /\ proposals[p].voteResults[For] = 0
        /\ now >= proposals[p].revealEndTime

----------------------------------------------------------------------------
(* SpecWeights: one ballot in which every weight is assigned after the      *)
(* commit of the voter it is assigned to, before or after that voter's      *)
(* reveal.                                                                  *)

WeightVoters == {voter1, voter2}
WeightChoices == {For, Against}

NextWeights ==
    \/ \E s \in Callers, t \in Titles, r \in RootInputs :
           proposalCount < MaxBallots /\ createProposal(s, t, r, 1)
    \/ \E s \in WeightVoters, i \in Created, c \in WeightChoices :
           commitVote(s, i, keccakChoiceSalt(c, 1), getHexProof(s))
    \/ \E s \in Callers, v \in WeightVoters, p \in PowerInputs :
           /\ \E i \in Created : hasVoted(i, v)
           /\ setVotingPower(s, v, p)
    \/ \E s \in WeightVoters, i \in Created, c \in WeightChoices :
           revealVote(s, i, c, 1)
    \/ \E s \in Callers, i \in Created : finalizeProposal(s, i)
    \/ Tick

SpecWeights == Init /\ [][NextWeights]_vars

\* the weight a reveal of v counts with in the current state
WeightNow(v) == IF votingPower[v] > 0 THEN votingPower[v] ELSE 1

----------------------------------------------------------------------------
(* No vote without influence.                                               *)

\* C35: every successful revealVote raises totalVotes of its proposal by at
\* least 1; a voter whose votingPower is 0, assigned by an admin or never
\* assigned, raises it and the tally of the choice by exactly 1; no step
\* lowers a tally or totalVotes of any proposal.
C35_RevealCountsAtLeastOne ==
    /\ [][\A p \in ProposalIds, v \in Addresses :
             RevealStep(p, v) =>
                 /\ proposals'[p].totalVotes >= proposals[p].totalVotes + 1
                 /\ votingPower[v] = 0 =>
                        /\ TalliesMoveBy(p, v, 1)
                        /\ history'[p][v].power = 1]_vars
    /\ [][\A p \in ProposalIds :
             /\ proposals'[p].totalVotes >= proposals[p].totalVotes
             /\ \A o \in VoteOptions :
                    proposals'[p].voteResults[o] >= proposals[p].voteResults[o]]_vars

\* voter2, whom an admin assigned the weight 0, is the only one who revealed
\* and the total is 1
C35_Witness ==
    \E p \in Created :
        /\ voter2 \in powerAssigned
        /\ votingPower[voter2] = 0
        /\ Revealed(p) = {voter2}
        /\ proposals[p].totalVotes = 1

----------------------------------------------------------------------------
(* Ids that were never created.                                             *)

\* C36: every id from proposalCount on reads as an unwritten slot, in state
\* Pending with all fields zero and no commitment, and commitVote,
\* revealVote and finalizeProposal on it are answered "Proposal not active",
\* an admin's executeProposal "Proposal not ended" and an admin's
\* cancelProposal "Cannot cancel"; every id below proposalCount is Active,
\* Ended, Executed or Cancelled.
C36_UnknownIds ==
    \A i \in ProposalIds :
        IF i >= proposalCount
        THEN /\ proposals[i] = EmptyProposal
             /\ getProposalState(i) = "Pending"
             /\ getProposalResults(i) = <<0, 0, 0, 0>>
             /\ \A a \in Addresses : commitments[i][a] = EmptyCommitment
             /\ \A s \in Callers :
                    /\ \A c \in CommitmentInputs, pf \in ProofInputs :
                           commitVoteOutcome(s, i, c, pf) = "Proposal not active"
                    /\ \A c \in ChoiceInputs, salt \in Salts :
                           revealVoteOutcome(s, i, c, salt) = "Proposal not active"
                    /\ finalizeProposalOutcome(s, i) = "Proposal not active"
                    /\ executeProposalOutcome(s, i) =
                           IF hasRole(ADMIN_ROLE, s) THEN "Proposal not ended"
                           ELSE "AccessControlUnauthorizedAccount"
                    /\ cancelProposalOutcome(s, i) =
                           IF hasRole(ADMIN_ROLE, s) THEN "Cannot cancel"
                           ELSE "AccessControlUnauthorizedAccount"
        ELSE getProposalState(i) \in {"Active", "Ended", "Executed", "Cancelled"}

\* proposal 0 exists and its reveal period is over, while the ids after it
\* still read as unwritten
C36_Witness ==
    /\ proposalCount = 1
    /\ getProposalState(0) = "Active"
    /\ now >= proposals[0].revealEndTime
    /\ \A i \in ProposalIds \ {0} : proposals[i] = EmptyProposal

----------------------------------------------------------------------------
(* Parameters are copied into a proposal when it is created.                *)

\* what a proposal copied from the parameters
SnapshotOf(p) ==
    <<proposals[p].startTime, proposals[p].endTime, proposals[p].revealEndTime,
      proposals[p].requiredQuorum>>

\* C37: a step that changes defaultVotingPeriod, defaultRevealPeriod or
\* minimumQuorum changes nothing else; no step changes the startTime,
\* endTime, revealEndTime or requiredQuorum of a proposal that exists; a
\* proposal created with votingPeriod 0 gets the parameters of the state
\* it is created in: endTime = now + defaultVotingPeriod, revealEndTime =
\* endTime + defaultRevealPeriod and requiredQuorum = minimumQuorum.
C37_ParameterSnapshot ==
    /\ [][ParamsOf' # ParamsOf =>
             UNCHANGED <<now, proposalCount, proposals, commitments, votingPower,
                         roles, history, powerAssigned>>]_vars
    /\ [][\A p \in Created : SnapshotOf(p)' = SnapshotOf(p)]_vars
    /\ [][proposalCount' # proposalCount =>
             LET new == proposals'[proposalCount] IN
             <<new.startTime, new.endTime, new.revealEndTime, new.requiredQuorum>> =
                 <<now, now + defaultVotingPeriod,
                   now + defaultVotingPeriod + defaultRevealPeriod,
                   minimumQuorum>>]_vars

\* proposal 0 was created under the deployment parameters and proposal 1
\* after updateVotingParameters(1 hours, 1 hours, 1): each keeps its own
C37_Witness ==
    /\ proposalCount = 2
    /\ ParamsOf = <<OneHour, OneHour, 1>>
    /\ proposals[0].endTime - proposals[0].startTime = ThreeDays
    /\ proposals[0].revealEndTime - proposals[0].endTime = OneDay
    /\ proposals[0].requiredQuorum = InitialQuorum
    /\ proposals[1].endTime - proposals[1].startTime = OneHour
    /\ proposals[1].revealEndTime - proposals[1].endTime = OneHour
    /\ proposals[1].requiredQuorum = 1

----------------------------------------------------------------------------
(* SpecLive: one ballot under the assumptions that time passes and that     *)
(* finalizeProposal is called on a proposal for as long as it would         *)
(* succeed.                                                                 *)

LiveVoters == {voter1, voter2}
LivePeriodInputs == {0, 1}

\* somebody calls finalizeProposal on proposal i
Finalize(i) == \E s \in Callers : finalizeProposal(s, i)

NextLive ==
    \/ \E s \in Callers, t \in Titles, r \in RootInputs, vp \in LivePeriodInputs :
           proposalCount < MaxBallots /\ createProposal(s, t, r, vp)
    \/ \E s \in LiveVoters, i \in Created :
           commitVote(s, i, keccakChoiceSalt(For, 1), getHexProof(s))
    \/ \E s \in LiveVoters, i \in Created : revealVote(s, i, For, 1)
    \/ \E i \in Created : Finalize(i)
    \/ \E s \in Callers, i \in Created : executeProposal(s, i)
    \/ \E s \in Callers, i \in Created : cancelProposal(s, i)
    \/ \E s \in Callers : updateVotingParameters(s, OneHour, OneHour, 1)
    \/ Tick

SpecLive ==
    /\ Init
    /\ [][NextLive]_vars
    /\ WF_vars(Tick)
    /\ \A i \in ProposalIds : WF_vars(Finalize(i))

\* C38: on a proposal that is Active with now >= revealEndTime,
\* finalizeProposal succeeds for every caller, whatever the tallies and the
\* roles; and, time passing and finalizeProposal being called, every created
\* proposal eventually is not Active and never is Active again.
C38_EveryProposalCloses ==
    /\ [](\A p \in ProposalIds :
             (getProposalState(p) = "Active" /\ now >= proposals[p].revealEndTime) =>
                 \A s \in Addresses : finalizeProposalOutcome(s, p) = "ok")
    /\ \A p \in ProposalIds :
           (p < proposalCount) ~> [](getProposalState(p) # "Active")

\* a proposal was closed by finalizeProposal, the only writer of Ended,
\* called by anybody once the reveal period was over
C38_Witness ==
    \E p \in Created :
        /\ getProposalState(p) = "Ended"
        /\ now >= proposals[p].revealEndTime
        /\ proposals[p].totalVotes = 2

----------------------------------------------------------------------------
(* Cancellation with commitments outstanding.                               *)

\* the voters whose commitment on p is not revealed
Unrevealed(p) == {v \in Addresses : hasVoted(p, v) /\ ~hasRevealed(p, v)}

\* C39: on a Cancelled proposal every commitVote and every revealVote is
\* answered "Proposal not active"; a step that cancels a proposal before
\* its revealEndTime, which only cancelProposal can, leaves its tallies and
\* vote records as they are; and from then on the proposal stays Cancelled,
\* its tallies stay and the voters who had committed without revealing
\* stay unrevealed.
C39_CancelStopsVoting ==
    /\ [](\A p \in ProposalIds : getProposalState(p) = "Cancelled" =>
             \A s \in Callers :
                 /\ \A c \in CommitmentInputs, pf \in ProofInputs :
                        commitVoteOutcome(s, p, c, pf) = "Proposal not active"
                 /\ \A c \in ChoiceInputs, salt \in Salts :
                        revealVoteOutcome(s, p, c, salt) = "Proposal not active")
    /\ [][\A p \in ProposalIds :
             /\ (/\ getProposalState(p) = "Active"
                 /\ getProposalState(p)' = "Cancelled"
                 /\ now < proposals[p].revealEndTime) =>
                    /\ \E s \in Callers : cancelProposalOutcome(s, p) = "ok"
                    /\ VotesOf(p)' = VotesOf(p)
             /\ getProposalState(p) = "Cancelled" =>
                    /\ getProposalState(p)' = "Cancelled"
                    /\ getProposalResults(p)' = getProposalResults(p)
                    /\ Unrevealed(p)' = Unrevealed(p)]_vars

\* a proposal was cancelled in its reveal window after voter2 had revealed
\* and before voter1 did: the commitment of voter1 stays unrevealed
C39_Witness ==
    \E p \in Created :
        /\ getProposalState(p) = "Cancelled"
        /\ proposals[p].endTime <= now
        /\ now < proposals[p].revealEndTime
        /\ Unrevealed(p) = {voter1}
        /\ Revealed(p) = {voter2}
        /\ proposals[p].totalVotes >= 1

----------------------------------------------------------------------------
(* Racing callers. The calls of one block run one after the other at one    *)
(* block.timestamp; commitVote and revealVote are written here as functions *)
(* of the storage of one proposal, so that two calls can be composed in     *)
(* both orders.                                                             *)

\* the storage of proposal p that commitVote and revealVote read and write
BallotOf(p) == [proposal |-> proposals[p], commitments |-> commitments[p]]

\* the requires of commitVote over the ballot B
commitAnswerOn(B, sender, commitment, proof) ==
    IF B.proposal.state # "Active" THEN "Proposal not active"
    ELSE IF ~(now >= B.proposal.startTime) THEN "Voting not started"
    ELSE IF ~(now < B.proposal.endTime) THEN "Voting ended"
    ELSE IF B.proposal.hasVoted[sender] THEN "Already voted"
    ELSE IF commitment = ZeroHash THEN "Invalid commitment"
    ELSE IF ~verify(proof, B.proposal.merkleRoot, keccakAddress(sender))
         THEN "Not eligible to vote"
    ELSE "ok"

\* commitOn stamping the record with the number of voters before the caller
commitOnCountingVoters(B, sender, commitment, proof) ==
    IF commitAnswerOn(B, sender, commitment, proof) # "ok" THEN B
    ELSE [proposal |-> [B.proposal EXCEPT !.hasVoted[sender] = TRUE,
                                          !.voteCommitments[sender] = commitment],
          commitments |-> [B.commitments EXCEPT ![sender] =
              [commitment |-> commitment,
               timestamp |-> Cardinality({a \in Addresses : B.proposal.hasVoted[a]}),
               revealed |-> FALSE]]]

\* the ballot after commitVote: B itself when the call reverts
commitOn(B, sender, commitment, proof) ==
    IF commitAnswerOn(B, sender, commitment, proof) # "ok" THEN B
    ELSE [proposal |-> [B.proposal EXCEPT !.hasVoted[sender] = TRUE,
                                          !.voteCommitments[sender] = commitment],
          commitments |-> [B.commitments EXCEPT ![sender] =
              [commitment |-> commitment, timestamp |-> now, revealed |-> FALSE]]]

\* the requires and the checked additions of revealVote over the ballot B
revealAnswerOn(B, sender, choice, salt) ==
    IF B.proposal.state # "Active" THEN "Proposal not active"
    ELSE IF ~(now >= B.proposal.endTime) THEN "Voting period not ended"
    ELSE IF ~(now < B.proposal.revealEndTime) THEN "Reveal period ended"
    ELSE IF B.commitments[sender].commitment = ZeroHash THEN "No commitment found"
    ELSE IF B.commitments[sender].revealed THEN "Already revealed"
    ELSE IF ~(choice <= Against) THEN "Invalid choice"
    ELSE IF keccakChoiceSalt(choice, salt) # B.commitments[sender].commitment
         THEN "Invalid reveal"
    ELSE IF B.proposal.voteResults[choice] + powerOf(sender) > UintMax THEN "Panic(0x11)"
    ELSE IF B.proposal.totalVotes + powerOf(sender) > UintMax THEN "Panic(0x11)"
    ELSE "ok"

\* the ballot after revealVote: B itself when the call reverts
revealOn(B, sender, choice, salt) ==
    IF revealAnswerOn(B, sender, choice, salt) # "ok" THEN B
    ELSE [proposal |-> [B.proposal EXCEPT !.voteResults[choice] = @ + powerOf(sender),
                                          !.totalVotes = @ + powerOf(sender)],
          commitments |-> [B.commitments EXCEPT ![sender].revealed = TRUE]]

\* the requests of the racers: a commitment with the caller's own proof, a
\* choice with a salt
CommitRequests == CommitmentInputs \ {ZeroHash}
RevealRequests == VoteOptions \X Salts
RacingPairs == {<<voter1, voter2>>, <<voter2, owner>>, <<owner, voter1>>}

\* the functions above are what the calls of the model answer and write
RaceFunctionsAgree ==
    /\ [](\A p \in ProposalIds, s \in Callers :
             /\ \A c \in CommitmentInputs, pf \in ProofInputs :
                    commitVoteOutcome(s, p, c, pf) = commitAnswerOn(BallotOf(p), s, c, pf)
             /\ \A c \in ChoiceInputs, salt \in Salts :
                    revealVoteOutcome(s, p, c, salt) = revealAnswerOn(BallotOf(p), s, c, salt))
    /\ [][\A p \in ProposalIds, v \in Callers :
             /\ (~hasVoted(p, v) /\ hasVoted(p, v)') =>
                    BallotOf(p)' = commitOn(BallotOf(p), v, history'[p][v].commitment,
                                            history'[p][v].proof)
             /\ RevealStep(p, v) =>
                    BallotOf(p)' = revealOn(BallotOf(p), v, history'[p][v].choice,
                                            history'[p][v].salt)]_vars

\* two commitVote calls of different callers that each would succeed both
\* succeed in either order, with the same ballot in the end; of two
\* commitVote calls of one caller the first succeeds and the second is
\* answered "Already voted" and writes nothing
CommitsCommute ==
    \A p \in Created :
        LET B == BallotOf(p) IN
        /\ \A r \in RacingPairs, ca \in CommitRequests, cb \in CommitRequests :
               LET a == r[1]
                   b == r[2]
                   Ba == commitOn(B, a, ca, getHexProof(a))
                   Bb == commitOn(B, b, cb, getHexProof(b))
               IN (/\ commitAnswerOn(B, a, ca, getHexProof(a)) = "ok"
                   /\ commitAnswerOn(B, b, cb, getHexProof(b)) = "ok") =>
                      /\ commitAnswerOn(Ba, b, cb, getHexProof(b)) = "ok"
                      /\ commitAnswerOn(Bb, a, ca, getHexProof(a)) = "ok"
                      /\ commitOn(Ba, b, cb, getHexProof(b))
                             = commitOn(Bb, a, ca, getHexProof(a))
        /\ \A a \in Callers, c1 \in CommitRequests, c2 \in CommitRequests :
               LET B1 == commitOn(B, a, c1, getHexProof(a)) IN
               commitAnswerOn(B, a, c1, getHexProof(a)) = "ok" =>
                   /\ B1.proposal.voteCommitments[a] = c1
                   /\ commitAnswerOn(B1, a, c2, getHexProof(a)) = "Already voted"
                   /\ commitOn(B1, a, c2, getHexProof(a)) = B1

\* the two reveals of callers a and b would each succeed on B
BothCanReveal(B, a, ra, b, rb) ==
    /\ revealAnswerOn(B, a, ra[1], ra[2]) = "ok"
    /\ revealAnswerOn(B, b, rb[1], rb[2]) = "ok"

\* both reveals succeed in either order and end in the same ballot
RevealsCommute(B, a, ra, b, rb) ==
    LET Ba == revealOn(B, a, ra[1], ra[2])
        Bb == revealOn(B, b, rb[1], rb[2])
    IN /\ revealAnswerOn(Ba, b, rb[1], rb[2]) = "ok"
       /\ revealAnswerOn(Bb, a, ra[1], ra[2]) = "ok"
       /\ revealOn(Ba, b, rb[1], rb[2]) = revealOn(Bb, a, ra[1], ra[2])

\* the weights of a and b fit on top of the tallies and the total of B
WeightsFit(B, a, ra, b, rb) ==
    /\ B.proposal.totalVotes + powerOf(a) + powerOf(b) <= UintMax
    /\ ra[1] = rb[1] =>
           B.proposal.voteResults[ra[1]] + powerOf(a) + powerOf(b) <= UintMax

\* C40 as stated: commitVote calls of two different eligible callers both
\* succeed in either order with the same final state, two commitVote calls
\* of one caller succeed once and are answered "Already voted" once, and
\* revealVote calls of two different committed callers both succeed in
\* either order with the same tallies.
C40_RacersCommute ==
    /\ RaceFunctionsAgree
    /\ [](/\ CommitsCommute
          /\ \A p \in Created, r \in RacingPairs,
                ra \in RevealRequests, rb \in RevealRequests :
                 BothCanReveal(BallotOf(p), r[1], ra, r[2], rb) =>
                     RevealsCommute(BallotOf(p), r[1], ra, r[2], rb))

\* C40 amended: as stated for commitVote; revealVote calls of two different
\* committed callers both succeed in either order with the same tallies
\* when their two weights fit into uint256 on top of the tallies and the
\* total, and otherwise the one that runs second reverts with Panic(0x11),
\* whichever it is, and only the first is counted.
C40_RacersCommuteWithinRange ==
    /\ RaceFunctionsAgree
    /\ [](/\ CommitsCommute
          /\ \A p \in Created, r \in RacingPairs,
                ra \in RevealRequests, rb \in RevealRequests :
                 LET B == BallotOf(p)
                     a == r[1]
                     b == r[2]
                 IN BothCanReveal(B, a, ra, b, rb) =>
                        IF WeightsFit(B, a, ra, b, rb)
                        THEN RevealsCommute(B, a, ra, b, rb)
                        ELSE /\ revealAnswerOn(revealOn(B, a, ra[1], ra[2]),
                                               b, rb[1], rb[2]) = "Panic(0x11)"
                             /\ revealAnswerOn(revealOn(B, b, rb[1], rb[2]),
                                               a, ra[1], ra[2]) = "Panic(0x11)")

\* both voters have committed and revealed within one clock value each:
\* the two commits carry one timestamp, and both votes are in the tallies
C40_Witness ==
    \E p \in Created :
        /\ Revealed(p) = {voter1, voter2}
        /\ commitments[p][voter1].timestamp = commitments[p][voter2].timestamp
        /\ history[p][voter1].commitment # history[p][voter2].commitment
        /\ proposals[p].totalVotes = history[p][voter1].power + history[p][voter2].power
        /\ history[p][voter2].power = 5

====
